---- MODULE Spec2Model ----
(***************************************************************************)
(* Verification model of the go_sql_agent: the tokenization engine         *)
(* (internal/tokenizer), the reply interpreter (QwenModel.GenerateContent),*)
(* the database tools and the event loop of Run with its loop guard.       *)
(***************************************************************************)
EXTENDS Integers, Sequences, FiniteSets, TLC

VARIABLES
    enabled,      \* Tokenizer.enabled
    tokenMap,     \* Tokenizer.tokenMap    original -> token
    reverseMap,   \* Tokenizer.reverseMap  token    -> original
    counters,     \* Tokenizer.counters    TokenType -> int
    hashed,       \* history: TokenizeWithHash minted a token since the last reset
    issued,       \* history: value -> the first token an enabled tokenize call returned for it
    track,        \* whether the history of issued tokens is kept
    ret,          \* the last tokenizer operation with its arguments and result
    reply,        \* the chat completion the backend returned to GenerateContent
    resp,         \* the LLMResponse GenerateContent yielded for it
    ipc,          \* GenerateContent: "request" before the reply is interpreted, "done" after
    dbConnection, \* tools.dbConnection: TRUE when the handle is not nil
    files,        \* the file system: file name -> the bytes before the first record, the records
    toolRes,      \* the last tool call: its arguments, what it sent to the database, its result
    maxCallsPerFunction, \* Run: the configured limit of calls of one function
    callCount,    \* Run: function name -> the number of its call events seen
    rpc,          \* Run: "idle", "events" while the event loop runs, "returned" after it
    stopReason,   \* why the event callback stopped the loop: "", "error", "loop", "final"
    runErr,       \* the error Run returned to its caller: "none" before it returns
    lastEv,       \* the event the sequence handed to the callback last
    dpc,          \* the runner behind the sequence: "idle", "AwaitingModel", "Dispatching", "Terminal"
    pending,      \* the function calls of the turn that wait for their dispatch
    turnCalls,    \* the function names dispatched since the last model request
    requests,     \* the number of requests sent to the model
    execCount,    \* function name -> the number of times the tool was executed
    mu,           \* Tokenizer.mu: 0 when free, else the goroutine holding the write lock
    rlocks,       \* Tokenizer.mu: the goroutines holding the read lock
    cpc,          \* goroutine -> its position in its tokenizer call
    cop,          \* goroutine -> the tokenizer call it makes
    cres,         \* goroutine -> what its call returned
    sysInstruction, \* req.Config.SystemInstruction.Parts: the texts of the instruction
    contents,     \* req.Contents: the conversation history GenerateContent is given
    messages,     \* params.Messages: the messages of the request built
    hpc           \* the position of GenerateContent in building the request

tokVars == <<enabled, tokenMap, reverseMap, counters, hashed, issued, track, ret>>

interpVars == <<reply, resp, ipc>>

toolVars == <<dbConnection, files, toolRes>>

runVars == <<maxCallsPerFunction, callCount, rpc, stopReason, runErr, lastEv>>

driveVars == <<dpc, pending, turnCalls, requests, execCount>>

concVars == <<mu, rlocks, cpc, cop, cres>>

histVars == <<sysInstruction, contents, messages, hpc>>

vars == <<tokVars, interpVars, toolVars, runVars, driveVars, concVars, histVars>>

NoReply == [err |-> FALSE, choices |-> 0, toolCalls |-> <<>>, content |-> ""]

NoResp == [err |-> FALSE, parts |-> <<>>, TurnComplete |-> FALSE]

\* no request is being interpreted
InterpIdle == reply = NoReply /\ resp = NoResp /\ ipc = "idle"

NoToolRes == [tool |-> "none"]

NoFiles == [f \in {} |-> <<>>]

\* no tool has been called
ToolsIdle == dbConnection = FALSE /\ files = NoFiles /\ toolRes = NoToolRes

\* the goroutines that call the tokenizer at the same time
Threads == {1, 2}

NoOp == [op |-> "none"]

\* no goroutine is inside the tokenizer
ConcIdle ==
    /\ mu = 0 /\ rlocks = {}
    /\ cpc = [t \in Threads |-> "idle"]
    /\ cop = [t \in Threads |-> NoOp]
    /\ cres = [t \in Threads |-> NoOp]

\* GenerateContent has not been asked to build a request
HistIdle ==
    /\ sysInstruction = <<>> /\ contents = <<>> /\ messages = <<>> /\ hpc = "idle"

\* no event has been handed to the callback yet
NoEvent == [kind |-> "none"]

\* an empty Go map
NoCalls == [x \in {} |-> 0]

\* Run has not been started
RunIdle ==
    /\ maxCallsPerFunction = 0 /\ callCount = NoCalls /\ rpc = "idle" /\ stopReason = ""
    /\ runErr = "none" /\ lastEv = NoEvent

\* the runner has not been started
DriveIdle ==
    /\ dpc = "idle" /\ pending = <<>> /\ turnCalls = <<>> /\ requests = 0
    /\ execCount = NoCalls

-----------------------------------------------------------------------------
(* Strings.                                                                *)

Min(S) == CHOOSE x \in S : \A y \in S : x <= y

Max(S) == CHOOSE x \in S : \A y \in S : x >= y

CharAt(s, i) == SubSeq(s, i, i)

\* unicode.IsSpace on the characters that occur
IsSpace(c) == c \in {" ", "\n", "\t", "\r"}

\* strings.TrimSpace
TrimSpace(s) ==
    LET keep == {i \in 1..Len(s) : ~IsSpace(CharAt(s, i))}
    IN  IF keep = {} THEN "" ELSE SubSeq(s, Min(keep), Max(keep))

RECURSIVE Split(_, _)
\* strings.Split(s, sep) for a one-character separator
Split(s, sep) ==
    LET at == {i \in 1..Len(s) : CharAt(s, i) = sep}
    IN  IF at = {} THEN <<s>>
        ELSE <<SubSeq(s, 1, Min(at) - 1)>> \o Split(SubSeq(s, Min(at) + 1, Len(s)), sep)

RECURSIVE Join(_, _)
\* strings.Join
Join(strs, sep) ==
    IF Len(strs) = 0 THEN ""
    ELSE IF Len(strs) = 1 THEN strs[1]
    ELSE strs[1] \o sep \o Join(Tail(strs), sep)

LowerLetters == "abcdefghijklmnopqrstuvwxyz"

UpperLetters == "ABCDEFGHIJKLMNOPQRSTUVWXYZ"

\* unicode.ToUpper on one character
UpperChar(c) ==
    IF \E i \in 1..26 : CharAt(LowerLetters, i) = c
    THEN CharAt(UpperLetters, CHOOSE i \in 1..26 : CharAt(LowerLetters, i) = c)
    ELSE c

\* unicode.ToLower on one character
LowerChar(c) ==
    IF \E i \in 1..26 : CharAt(UpperLetters, i) = c
    THEN CharAt(LowerLetters, CHOOSE i \in 1..26 : CharAt(UpperLetters, i) = c)
    ELSE c

RECURSIVE ToUpper(_)
\* strings.ToUpper
ToUpper(s) == IF s = "" THEN "" ELSE UpperChar(CharAt(s, 1)) \o ToUpper(SubSeq(s, 2, Len(s)))

RECURSIVE ToLower(_)
\* strings.ToLower
ToLower(s) == IF s = "" THEN "" ELSE LowerChar(CharAt(s, 1)) \o ToLower(SubSeq(s, 2, Len(s)))

Contains(s, sub) ==
    \E i \in 1..(Len(s) - Len(sub) + 1) : SubSeq(s, i, i + Len(sub) - 1) = sub

HasPrefix(s, p) == Len(s) >= Len(p) /\ SubSeq(s, 1, Len(p)) = p

-----------------------------------------------------------------------------
(* Tokenizer (internal/tokenizer/tokenizer.go).                            *)

TokenTypeName == "NAME"
TokenTypeDate == "DATE"
TokenTypeNumber == "NUM"
TokenTypeID == "ID"
TokenTypeAddress == "ADDR"
TokenTypePhone == "PHONE"
TokenTypeEmail == "EMAIL"
TokenTypeDiagnosis == "DIAG"
TokenTypeDrug == "DRUG"

AllTokenTypes ==
    {TokenTypeName, TokenTypeDate, TokenTypeNumber, TokenTypeID, TokenTypeAddress,
     TokenTypePhone, TokenTypeEmail, TokenTypeDiagnosis, TokenTypeDrug}

\* the token types the tokenizer operations are exercised with
TokenTypes == {TokenTypeName, TokenTypeDate}

\* original values handed to the tokenizer; two of them are themselves
\* shaped like tokens, two share the first 8 hex digits of their SHA-256
Values == {"", "NAME_001", "v58213", "v67279"}

\* the values of a run that keeps the history of issued tokens
LifetimeValues == {"", "v58213", "v67279"}

ValuesOf(tr) == IF tr THEN LifetimeValues ELSE Values

\* values the tokenizer's functions are probed with in every reachable state
ProbeValues == Values \cup {"Ivanov", "NAME_002", "DATE_001"}

\* strings handed to Detokenize
TokenInputs == Values \cup {"NAME_001", "NAME_002", "DATE_001", "NAME_cdffd75c"}

\* hex.EncodeToString(sha256.Sum256(value))[:8]
Sha256Hex8(value) ==
    CASE value = "NAME_001" -> "c86d1f9f"
      [] value = "v58213"   -> "cdffd75c"
      [] value = "v67279"   -> "cdffd75c"
      [] OTHER              -> "e3b0c442"

\* fmt's %03d for a non-negative int
Pad3(n) ==
    IF n < 10 THEN "00" \o ToString(n)
    ELSE IF n < 100 THEN "0" \o ToString(n)
    ELSE ToString(n)

\* fmt.Sprintf("%s_%03d", tokenType, n)
FormatToken(tokenType, n) == tokenType \o "_" \o Pad3(n)

\* fmt.Sprintf("%s_%s", tokenType, hashStr)
FormatHashToken(tokenType, hashStr) == tokenType \o "_" \o hashStr

\* a Go map read: the zero value when the key is absent
CounterOf(c, tokenType) == IF tokenType \in DOMAIN c THEN c[tokenType] ELSE 0

\* a Go map write m[k] = v
MapSet(m, k, v) == [x \in DOMAIN m \cup {k} |-> IF x = k THEN v ELSE m[x]]

EmptyMap == [x \in {} |-> ""]

\* the Tokenizer object as a record
Tokenizer == [enabled |-> enabled, tokenMap |-> tokenMap,
              reverseMap |-> reverseMap, counters |-> counters]

\* tokenizer.New(cfg)
New(cfgEnabled) ==
    [enabled |-> cfgEnabled, tokenMap |-> EmptyMap,
     reverseMap |-> EmptyMap, counters |-> EmptyMap]

\* Tokenize that forgets to record the reverse direction
TokenizeNoReverse(t, value, tokenType) ==
    IF ~t.enabled \/ value = ""
    THEN [token |-> value, t |-> t]
    ELSE IF value \in DOMAIN t.tokenMap
    THEN [token |-> t.tokenMap[value], t |-> t]
    ELSE LET n == CounterOf(t.counters, tokenType) + 1
             token == FormatToken(tokenType, n)
         IN  [token |-> token,
              t |-> [t EXCEPT !.counters = MapSet(t.counters, tokenType, n),
                              !.tokenMap = MapSet(t.tokenMap, value, token)]]

\* Tokenize that mints without looking the value up first
TokenizeNoLookup(t, value, tokenType) ==
    IF ~t.enabled \/ value = ""
    THEN [token |-> value, t |-> t]
    ELSE LET n == CounterOf(t.counters, tokenType) + 1
             token == FormatToken(tokenType, n)
         IN  [token |-> token,
              t |-> [t EXCEPT !.counters = MapSet(t.counters, tokenType, n),
                              !.tokenMap = MapSet(t.tokenMap, value, token),
                              !.reverseMap = MapSet(t.reverseMap, token, value)]]

\* Tokenize that formats the token before it increments the counter
TokenizeFormatFirst(t, value, tokenType) ==
    IF ~t.enabled \/ value = ""
    THEN [token |-> value, t |-> t]
    ELSE IF value \in DOMAIN t.tokenMap
    THEN [token |-> t.tokenMap[value], t |-> t]
    ELSE LET n == CounterOf(t.counters, tokenType) + 1
             token == FormatToken(tokenType, n - 1)
         IN  [token |-> token,
              t |-> [t EXCEPT !.counters = MapSet(t.counters, tokenType, n),
                              !.tokenMap = MapSet(t.tokenMap, value, token),
                              !.reverseMap = MapSet(t.reverseMap, token, value)]]

\* (t *Tokenizer).Tokenize: the returned token and the tokenizer afterwards
Tokenize(t, value, tokenType) ==
    IF ~t.enabled \/ value = ""
    THEN [token |-> value, t |-> t]
    ELSE IF value \in DOMAIN t.tokenMap
    THEN [token |-> t.tokenMap[value], t |-> t]
    ELSE LET n == CounterOf(t.counters, tokenType) + 1
             token == FormatToken(tokenType, n)
         IN  [token |-> token,
              t |-> [t EXCEPT !.counters = MapSet(t.counters, tokenType, n),
                              !.tokenMap = MapSet(t.tokenMap, value, token),
                              !.reverseMap = MapSet(t.reverseMap, token, value)]]

\* (t *Tokenizer).TokenizeWithHash
TokenizeWithHash(t, value, tokenType) ==
    IF ~t.enabled \/ value = ""
    THEN [token |-> value, t |-> t]
    ELSE IF value \in DOMAIN t.tokenMap
    THEN [token |-> t.tokenMap[value], t |-> t]
    ELSE LET token == FormatHashToken(tokenType, Sha256Hex8(value))
         IN  [token |-> token,
              t |-> [t EXCEPT !.tokenMap = MapSet(t.tokenMap, value, token),
                              !.reverseMap = MapSet(t.reverseMap, token, value)]]

\* Detokenize that does not look at the enabled flag
DetokenizeIgnoreEnabled(t, token) ==
    IF token = ""
    THEN token
    ELSE IF token \in DOMAIN t.reverseMap
    THEN t.reverseMap[token]
    ELSE token

\* (t *Tokenizer).Detokenize
Detokenize(t, token) ==
    IF ~t.enabled \/ token = ""
    THEN token
    ELSE IF token \in DOMAIN t.reverseMap
    THEN t.reverseMap[token]
    ELSE token

\* (t *Tokenizer).GetStats
GetStats(t) ==
    [enabled |-> t.enabled,
     total_tokens |-> Cardinality(DOMAIN t.tokenMap),
     counters |-> t.counters,
     token_types |-> Cardinality(DOMAIN t.counters)]

NoRet == [op |-> "none"]

\* history of the process: the first token handed out for each value
Issue(value, token) ==
    IF track /\ enabled /\ value # "" /\ value \notin DOMAIN issued
    THEN MapSet(issued, value, token)
    ELSE issued

SetTokenizer0(t) ==
    /\ enabled = t.enabled
    /\ tokenMap = t.tokenMap
    /\ reverseMap = t.reverseMap
    /\ counters = t.counters

SetTokenizer(t) ==
    /\ enabled' = t.enabled
    /\ tokenMap' = t.tokenMap
    /\ reverseMap' = t.reverseMap
    /\ counters' = t.counters

\* the tokenizer after construction, New(cfg)
InitTok ==
    /\ \E cfgEnabled \in BOOLEAN : SetTokenizer0(New(cfgEnabled))
    /\ hashed = FALSE
    /\ issued = EmptyMap
    /\ ret = NoRet

-----------------------------------------------------------------------------
(* The database tools (internal/tools): GetTableSample, ExecuteQuery and    *)
(* ExportToCSV.  The Russian texts of the source are written in Latin       *)
(* transliteration.                                                         *)

NilValue == [type |-> "nil"]
StringValue(v) == [type |-> "string", v |-> v]
IntValue(n) == [type |-> "int", v |-> n]
TimeValue(date, clock) == [type |-> "time", date |-> date, clock |-> clock]

\* the tables of the connected database: their columns and rows
Database ==
    [patients |->
        [columns |-> <<"id", "full_name", "birth_date">>,
         rows |-> << <<IntValue(1), StringValue("Ivanov"), TimeValue("1990-05-15", "00:00:00")>>,
                     <<IntValue(2), StringValue("Petrov"), NilValue>> >>],
     diagnoses |->
        [columns |-> <<"code", "diagnosis">>,
         rows |-> << <<StringValue("a00"), StringValue("Cholera")>>,
                     <<StringValue("NAME_001"), StringValue("Typhus")>> >>],
     prescriptions |->
        [columns |-> <<"created_at", "drug_code">>,
         rows |-> << <<TimeValue("2024-01-02", "10:30:00"), StringValue("d1")>> >>]]

SampleLimit == 10

\* fmt.Sprintf("SELECT * FROM %s LIMIT 10", tableName)
SampleQuery(tableName) == "SELECT * FROM " \o tableName \o " LIMIT 10"

Project(table, cols) ==
    [columns |-> [i \in 1..Len(cols) |-> table.columns[cols[i]]],
     rows |-> [r \in 1..Len(table.rows) |-> [i \in 1..Len(cols) |-> table.rows[r][cols[i]]]]]

QueryError == [ok |-> FALSE, columns |-> <<>>, rows |-> <<>>]

QueryRows(t) == [ok |-> TRUE, columns |-> t.columns, rows |-> t.rows]

\* dbConnection.QueryContext(ctx, query): the result set of the statements
\* the tools send, an error for every other statement
QueryContext(query) ==
    LET q == TrimSpace(query)
    IN  CASE q \in {SampleQuery(t) : t \in DOMAIN Database} ->
                LET t == Database[CHOOSE t \in DOMAIN Database : q = SampleQuery(t)]
                IN  [ok |-> TRUE, columns |-> t.columns,
                     rows |-> SubSeq(t.rows, 1, IF Len(t.rows) < SampleLimit
                                                THEN Len(t.rows) ELSE SampleLimit)]
          [] q = "SELECT id FROM patients" -> QueryRows(Project(Database.patients, <<1>>))
          [] q = "SELECT * FROM patients" -> QueryRows(Database.patients)
          [] q = "select code, diagnosis from diagnoses" -> QueryRows(Database.diagnoses)
          [] q = "SELECT created_at FROM prescriptions" ->
                QueryRows(Project(Database.prescriptions, <<1>>))
          [] OTHER -> QueryError

\* fmt's %v of a scanned value
FormatV(val) ==
    CASE val.type = "nil" -> "<nil>"
      [] val.type = "string" -> val.v
      [] val.type = "int" -> ToString(val.v)
      [] val.type = "time" -> val.date \o " " \o val.clock \o " +0000 UTC"

RECURSIVE SampleRowText(_, _, _)
\* the column=value pairs of one row from column i on
SampleRowText(columns, values, i) ==
    IF i > Len(values) THEN ""
    ELSE (IF i > 1 THEN ", " ELSE "") \o columns[i] \o "=" \o FormatV(values[i])
         \o SampleRowText(columns, values, i + 1)

RECURSIVE SampleRowsText(_, _, _)
\* the lines "Stroka <n>: ..." of the rows from row n on
SampleRowsText(columns, rows, n) ==
    IF n > Len(rows) THEN ""
    ELSE "Stroka " \o ToString(n) \o ": " \o SampleRowText(columns, rows[n], 1) \o "\n"
         \o SampleRowsText(columns, rows, n + 1)

\* GetTableSample(ctx, args); scanFail is the row whose Scan fails, 0 for none
GetTableSample(connected, tableName, scanFail) ==
    IF ~connected
    THEN [err |-> "NoConnection", Sample |-> "", sent |-> <<>>]
    ELSE LET query == SampleQuery(tableName)
             res == QueryContext(query)
         IN  IF ~res.ok
             THEN [err |-> "QueryFailed", Sample |-> "", sent |-> <<query>>]
             ELSE IF scanFail \in 1..Len(res.rows)
             THEN [err |-> "ScanFailed", Sample |-> "", sent |-> <<query>>]
             ELSE [err |-> "",
                   Sample |-> "Pervye 10 strok iz tablitsy " \o tableName \o ":\n\n"
                              \o "Kolonki: " \o Join(res.columns, ", ") \o "\n\n"
                              \o SampleRowsText(res.columns, res.rows, 1),
                   sent |-> <<query>>]

\* the translations map of translateColumns
Translations ==
    [code |-> "kod_mkb", icd_code |-> "kod_mkb",
     diagnosis |-> "nazvanie_diagnoza", name |-> "nazvanie_diagnoza",
     class |-> "klass_zabolevaniya", disease_class |-> "klass_zabolevaniya",
     id |-> "id", patient_id |-> "id",
     birth_date |-> "data_rozhdeniya", birthdate |-> "data_rozhdeniya",
     date_of_birth |-> "data_rozhdeniya",
     gender |-> "pol", sex |-> "pol",
     district |-> "raion_prozhivaniya", region |-> "region", city |-> "region",
     prescription_date |-> "data_retsepta", date |-> "data_retsepta",
     created_at |-> "data_retsepta",
     diagnosis_code |-> "kod_diagnoza", drug_code |-> "kod_preparata",
     medicine_code |-> "kod_preparata", medication_code |-> "kod_preparata"]

\* translateColumns that leaves every column name as it is
translateColumnsUntranslated(columns) == columns

\* translateColumns
translateColumns(columns) ==
    [i \in 1..Len(columns) |->
        IF columns[i] \in DOMAIN Translations THEN Translations[columns[i]] ELSE columns[i]]

\* valueToString
valueToString(val) ==
    CASE val.type = "nil" -> ""
      [] val.type = "string" -> val.v
      [] val.type = "int" -> ToString(val.v)
      [] val.type = "time" ->
            IF val.clock = "00:00:00" THEN val.date ELSE val.date \o " " \o val.clock

\* the record of a row written without the detokenization
ExportRowTokens(t, values) ==
    [i \in 1..Len(values) |-> valueToString(values[i])]

\* the record ExportToCSV writes for a row: every value as text, detokenized
ExportRow(t, values) ==
    [i \in 1..Len(values) |->
        LET strVal == valueToString(values[i])
        IN  IF t.enabled /\ strVal # "" THEN Detokenize(t, strVal) ELSE strVal]

NoFailure == [kind |-> "none", at |-> 0, flushed |-> 0]

\* the failures of an export of n rows: os.Create fails; writing the header
\* fails; Scan or Write of row `at` fails; rows.Err() reports an error after
\* `at` rows were read.  A failed Write leaves `flushed` of the records
\* written before it in the file.
Failures(n) ==
    {NoFailure, [kind |-> "create", at |-> 0, flushed |-> 0],
     [kind |-> "header", at |-> 0, flushed |-> 0]}
    \cup {[kind |-> "scan", at |-> k, flushed |-> 0] : k \in 1..n}
    \cup {[kind |-> "rowsErr", at |-> k, flushed |-> 0] : k \in 0..(n - 1)}
    \cup UNION {{[kind |-> "write", at |-> k, flushed |-> f] : f \in 0..k} : k \in 1..n}

\* the text of the error of the operating system or the driver
IoError == "input/output error"

\* the texts of the errors ExportToCSV returns
ExportErrorText ==
    [CreateFailed |-> "oshibka sozdaniya faila: " \o IoError,
     HeaderFailed |-> "oshibka zapisi zagolovkov: " \o IoError,
     ScanFailed |-> "oshibka chteniya stroki: " \o IoError,
     WriteFailed |-> "oshibka zapisi stroki: " \o IoError,
     RowsErr |-> "oshibka iteratsii po strokam: " \o IoError]

\* the bytes ExportToCSV writes to the file before the header record: none
FilePrefix == ""

\* ExportToCSV(rows, filename): the row count and error it returns, and the
\* file afterwards when it was created: the bytes before the first record
\* and the records
ExportToCSV(t, res, filename, fail) ==
    LET header == translateColumns(res.columns)
        record(k) == ExportRow(t, res.rows[k])
        written(n) == <<header>> \o [k \in 1..n |-> record(k)]
        out(rowCount, err, created, records) ==
            [rowCount |-> rowCount, err |-> err,
             text |-> IF err = "" THEN "" ELSE ExportErrorText[err],
             created |-> created, prefix |-> FilePrefix, records |-> records]
    IN  CASE filename = "" \/ fail.kind = "create" -> out(0, "CreateFailed", FALSE, <<>>)
          [] fail.kind = "header" -> out(0, "HeaderFailed", TRUE, <<>>)
          [] fail.kind = "scan" -> out(fail.at - 1, "ScanFailed", TRUE, written(fail.at - 1))
          [] fail.kind = "write" ->
                out(fail.at - 1, "WriteFailed", TRUE,
                    SubSeq(written(fail.at - 1), 1, fail.flushed))
          [] fail.kind = "rowsErr" -> out(fail.at, "RowsErr", TRUE, written(fail.at))
          [] OTHER -> out(Len(res.rows), "", TRUE, written(Len(res.rows)))

\* the keywords ExecuteQuery refuses
ForbiddenKeywords == {"DROP", "DELETE", "UPDATE", "INSERT"}

\* the validation of ExecuteQuery: "" when the statement may run
ValidateQuery(query) ==
    LET upperQuery == ToUpper(TrimSpace(query))
    IN  IF ~HasPrefix(upperQuery, "SELECT") THEN "OnlySelect"
        ELSE IF \E kw \in ForbiddenKeywords : Contains(upperQuery, kw) THEN "ModifyingForbidden"
        ELSE ""

\* ExecuteQuery(ctx, args): its result, the statements it sent to the
\* database and the export it made
ExecuteQuery(t, connected, query, outputFile, fail) ==
    LET none == [created |-> FALSE, records |-> <<>>]
    IN  IF ~connected
        THEN [err |-> "NoConnection", errText |-> "net podklyucheniya k baze dannykh",
              Message |-> "", sent |-> <<>>, export |-> none]
        ELSE IF ValidateQuery(query) # ""
        THEN [err |-> ValidateQuery(query),
              errText |-> IF ValidateQuery(query) = "OnlySelect"
                          THEN "razresheny tolko SELECT zaprosy"
                          ELSE "zapreshcheny modifitsiruyushchie operatsii",
              Message |-> "", sent |-> <<>>, export |-> none]
        ELSE LET res == QueryContext(query)
             IN  IF ~res.ok
                 THEN [err |-> "QueryFailed",
                       errText |-> "oshibka vypolneniya zaprosa: " \o IoError,
                       Message |-> "", sent |-> <<query>>, export |-> none]
                 ELSE LET e == ExportToCSV(t, res, outputFile, fail)
                      IN  IF e.err # ""
                          THEN [err |-> "ExportFailed",
                                errText |-> "oshibka eksporta v CSV: " \o e.text,
                                Message |-> "", sent |-> <<query>>,
                                export |-> e]
                          ELSE [err |-> "", errText |-> "",
                                Message |-> "Zapros vypolnen uspeshno. Eksportirovano "
                                            \o ToString(e.rowCount) \o " strok v fail " \o outputFile,
                                sent |-> <<query>>, export |-> e]

\* the statements the model asks ExecuteQuery to run
Queries ==
    {"SELECT id FROM patients", "  SELECT * FROM patients\n",
     "select code, diagnosis from diagnoses",
     "SELECT created_at FROM prescriptions",
     "UPDATE patients SET id = 1", "SELECT * FROM x; DROP TABLE x",
     "SELECT 1; ALTER TABLE x ADD c int", "select 1; create table y (a int)",
     "SELECT 1; delete from x", "SELECT 1; INSERT INTO x VALUES (1)",
     "SELECT updated_at FROM x", "DELETE FROM x", "WITH t AS (SELECT 1) SELECT * FROM t",
     "SELECTED", ""}

OutputFiles == {"out.csv", ""}

\* the table names the model asks GetTableSample for
TableNames == {"patients", "diagnoses", "prescriptions", "nosuch"}

\* the tokenizers a tool call can meet: new, or with a value tokenized, and
\* switched off afterwards
ToolTokenizers ==
    LET one == Tokenize(New(TRUE), "Ivanov", TokenTypeName).t
    IN  {New(TRUE), New(FALSE), one, [one EXCEPT !.enabled = FALSE]}

\* the process before a tool call: the tokenizer, and the database connected
\* (ConnectDatabaseDirect) or not
InitTools ==
    /\ \E t \in ToolTokenizers : SetTokenizer0(t)
    /\ hashed = FALSE /\ issued = EmptyMap /\ ret = NoRet /\ track = FALSE
    /\ InterpIdle /\ RunIdle /\ DriveIdle /\ ConcIdle /\ HistIdle
    /\ dbConnection \in BOOLEAN
    /\ files = NoFiles
    /\ toolRes = NoToolRes

\* the dispatcher runs GetTableSample (one tool call is followed: the result
\* of a call does not depend on the calls before it)
DoGetTableSample ==
    \E tableName \in TableNames, scanFail \in 0..1 :
        /\ toolRes = NoToolRes
        /\ toolRes' = [tool |-> "GetTableSample", table_name |-> tableName,
                       result |-> GetTableSample(dbConnection, tableName, scanFail)]
        /\ UNCHANGED <<dbConnection, files, tokVars, interpVars, runVars, driveVars, concVars, histVars>>

\* the dispatcher runs ExecuteQuery
DoExecuteQuery ==
    \E query \in Queries, outputFile \in OutputFiles :
        \E fail \in Failures(Len(QueryContext(query).rows)) :
            LET r == ExecuteQuery(Tokenizer, dbConnection, query, outputFile, fail)
            IN  /\ toolRes = NoToolRes
                /\ toolRes' = [tool |-> "ExecuteQuery", query |-> query,
                               output_file |-> outputFile, result |-> r]
                /\ files' = IF r.export.created
                            THEN MapSet(files, outputFile,
                                        [prefix |-> r.export.prefix,
                                         records |-> r.export.records])
                            ELSE files
                /\ UNCHANGED <<dbConnection, tokVars, interpVars, runVars, driveVars, concVars, histVars>>

NextTools == DoGetTableSample \/ DoExecuteQuery

SpecTools == InitTools /\ [][NextTools]_vars

\* a call of Tokenize on the global tokenizer
DoTokenize ==
    \E value \in ValuesOf(track), tokenType \in TokenTypes :
        LET r == Tokenize(Tokenizer, value, tokenType)
        IN  /\ SetTokenizer(r.t)
            /\ ret' = [op |-> "Tokenize", value |-> value, type |-> tokenType,
                       token |-> r.token, minted |-> (r.t # Tokenizer)]
            /\ issued' = Issue(value, r.token)
            /\ UNCHANGED <<hashed, track>>
            /\ UNCHANGED <<interpVars, toolVars, runVars, driveVars, concVars, histVars>>

\* a call of TokenizeWithHash on the global tokenizer
DoTokenizeWithHash ==
    \E value \in ValuesOf(track), tokenType \in TokenTypes :
        LET r == TokenizeWithHash(Tokenizer, value, tokenType)
        IN  /\ SetTokenizer(r.t)
            /\ ret' = [op |-> "TokenizeWithHash", value |-> value, type |-> tokenType,
                       token |-> r.token, minted |-> (r.t # Tokenizer)]
            /\ issued' = Issue(value, r.token)
            /\ hashed' = (hashed \/ r.t # Tokenizer)
            /\ UNCHANGED track
            /\ UNCHANGED <<interpVars, toolVars, runVars, driveVars, concVars, histVars>>

\* a call of Detokenize on the global tokenizer
DoDetokenize ==
    \E token \in TokenInputs :
        /\ ret' = [op |-> "Detokenize", token |-> token,
                   value |-> Detokenize(Tokenizer, token)]
        /\ UNCHANGED <<enabled, tokenMap, reverseMap, counters, hashed, issued, track, interpVars, toolVars, runVars, driveVars, concVars, histVars>>

\* (t *Tokenizer).SetEnabled
SetEnabled ==
    \E e \in BOOLEAN :
        /\ enabled' = e
        /\ ret' = [op |-> "SetEnabled", enabled |-> e]
        /\ UNCHANGED <<tokenMap, reverseMap, counters, hashed, issued, track, interpVars, toolVars, runVars, driveVars, concVars, histVars>>

\* (t *Tokenizer).Clear
Clear ==
    /\ tokenMap' = EmptyMap
    /\ reverseMap' = EmptyMap
    /\ counters' = EmptyMap
    /\ hashed' = FALSE
    /\ ret' = [op |-> "Clear"]
    /\ UNCHANGED <<enabled, issued, track, interpVars, toolVars, runVars, driveVars, concVars, histVars>>

\* tokenizer.Init(cfg): the global tokenizer is replaced by a new one
InitTokenizer ==
    \E cfgEnabled \in BOOLEAN :
        /\ SetTokenizer(New(cfgEnabled))
        /\ hashed' = FALSE
        /\ ret' = [op |-> "Init", enabled |-> cfgEnabled]
        /\ UNCHANGED <<issued, track, interpVars, toolVars, runVars, driveVars, concVars, histVars>>

\* a call of GetStats on the global tokenizer
DoGetStats ==
    /\ ret' = [op |-> "GetStats", stats |-> GetStats(Tokenizer)]
    /\ UNCHANGED <<enabled, tokenMap, reverseMap, counters, hashed, issued, track, interpVars, toolVars, runVars, driveVars, concVars, histVars>>

-----------------------------------------------------------------------------
(* detectTokenType (tokenizer.go 226-272) and the patterns of New.         *)

\* DefaultConfig().SensitiveFields
DefaultSensitiveFields ==
    <<"name", "full_name", "first_name", "last_name", "middle_name",
      "phone", "email", "address", "birth_date", "birthdate",
      "salary", "income", "account", "card_number",
      "diagnosis", "disease", "drug", "medication", "prescription">>

Digit == {"0", "1", "2", "3", "4", "5", "6", "7", "8", "9"}

Letter == {CharAt(LowerLetters, i) : i \in 1..26} \cup {CharAt(UpperLetters, i) : i \in 1..26}

\* a pattern is a sequence of items [class, min, max]: between min and max
\* characters of the class; EndsOf is the set of positions just after a match
\* of the items k.. that starts at position i
RECURSIVE EndsOf(_, _, _, _)
EndsOf(s, pattern, k, i) ==
    IF k > Len(pattern) THEN {i}
    ELSE LET item == pattern[k]
             runs == {n \in item.min..item.max :
                         /\ i + n - 1 <= Len(s)
                         /\ \A j \in i..(i + n - 1) : CharAt(s, j) \in item.class}
         IN  UNION {EndsOf(s, pattern, k + 1, i + n) : n \in runs}

\* regexp.MatchString: the pattern matches somewhere in s
MatchString(pattern, s) == \E i \in 1..(Len(s) + 1) : EndsOf(s, pattern, 1, i) # {}

Item(class, min, max) == [class |-> class, min |-> min, max |-> max]

\* \d{4}-\d{2}-\d{2}
PatternDateIso ==
    <<Item(Digit, 4, 4), Item({"-"}, 1, 1), Item(Digit, 2, 2), Item({"-"}, 1, 1), Item(Digit, 2, 2)>>

\* \d{2}\.\d{2}\.\d{4}
PatternDateDots ==
    <<Item(Digit, 2, 2), Item({"."}, 1, 1), Item(Digit, 2, 2), Item({"."}, 1, 1), Item(Digit, 4, 4)>>

\* the longest run a pattern's unbounded repetition is tried with
MaxRun == 24

\* [a-zA-Z0-9._%+-]+@[a-zA-Z0-9.-]+\.[a-zA-Z]{2,}
PatternEmail ==
    <<Item(Letter \cup Digit \cup {".", "_", "%", "+", "-"}, 1, MaxRun), Item({"@"}, 1, 1),
      Item(Letter \cup Digit \cup {".", "-"}, 1, MaxRun), Item({"."}, 1, 1), Item(Letter, 2, MaxRun)>>

SepClass == {"-", ".", " ", "\t", "\n", "\r"}

\* \+?\d{1,3}[-.\s]?\(?\d{1,4}\)?[-.\s]?\d{1,4}[-.\s]?\d{1,9}
PatternPhone ==
    <<Item({"+"}, 0, 1), Item(Digit, 1, 3), Item(SepClass, 0, 1), Item({"("}, 0, 1),
      Item(Digit, 1, 4), Item({")"}, 0, 1), Item(SepClass, 0, 1), Item(Digit, 1, 4),
      Item(SepClass, 0, 1), Item(Digit, 1, 9)>>

\* t.patterns[tokenType].MatchString(value)
PatternMatches(tokenType, value) ==
    CASE tokenType = TokenTypeDate ->
            MatchString(PatternDateIso, value) \/ MatchString(PatternDateDots, value)
      [] tokenType = TokenTypeEmail -> MatchString(PatternEmail, value)
      [] tokenType = TokenTypePhone -> MatchString(PatternPhone, value)

\* the keys of t.patterns
PatternTypes == {TokenTypeDate, TokenTypeEmail, TokenTypePhone}

\* detectTokenType that returns no type when neither the field name nor a
\* pattern decides
DetectTokenTypesNoDefault(sensitiveFields, fieldName, value) ==
    LET fieldLower == ToLower(fieldName)
        isSensitive == \E i \in 1..Len(sensitiveFields) :
                           Contains(fieldLower, ToLower(sensitiveFields[i]))
        has(sub) == Contains(fieldLower, sub)
        matching == {tt \in PatternTypes : PatternMatches(tt, value)}
    IN  IF ~isSensitive THEN {""}
        ELSE IF has("name") \/ has("fio") THEN {TokenTypeName}
        ELSE IF has("date") \/ has("birth") THEN {TokenTypeDate}
        ELSE IF has("phone") \/ has("tel") THEN {TokenTypePhone}
        ELSE IF has("email") \/ has("mail") THEN {TokenTypeEmail}
        ELSE IF has("address") \/ has("addr") THEN {TokenTypeAddress}
        ELSE IF has("salary") \/ has("income") \/ has("amount") THEN {TokenTypeNumber}
        ELSE IF has("id") THEN {TokenTypeID}
        ELSE IF has("diagnosis") \/ has("disease") THEN {TokenTypeDiagnosis}
        ELSE IF has("drug") \/ has("medication") \/ has("prescription") THEN {TokenTypeDrug}
        ELSE IF matching # {} THEN matching
        ELSE {""}

\* the token types detectTokenType can return for (fieldName, value), "" for
\* none; the range over the patterns map visits its keys in an unspecified
\* order and returns the first that matches
DetectTokenTypes(sensitiveFields, fieldName, value) ==
    LET fieldLower == ToLower(fieldName)
        isSensitive == \E i \in 1..Len(sensitiveFields) :
                           Contains(fieldLower, ToLower(sensitiveFields[i]))
        has(sub) == Contains(fieldLower, sub)
        matching == {tt \in PatternTypes : PatternMatches(tt, value)}
    IN  IF ~isSensitive THEN {""}
        ELSE IF has("name") \/ has("fio") THEN {TokenTypeName}
        ELSE IF has("date") \/ has("birth") THEN {TokenTypeDate}
        ELSE IF has("phone") \/ has("tel") THEN {TokenTypePhone}
        ELSE IF has("email") \/ has("mail") THEN {TokenTypeEmail}
        ELSE IF has("address") \/ has("addr") THEN {TokenTypeAddress}
        ELSE IF has("salary") \/ has("income") \/ has("amount") THEN {TokenTypeNumber}
        ELSE IF has("id") THEN {TokenTypeID}
        ELSE IF has("diagnosis") \/ has("disease") THEN {TokenTypeDiagnosis}
        ELSE IF has("drug") \/ has("medication") \/ has("prescription") THEN {TokenTypeDrug}
        ELSE IF matching # {} THEN matching
        ELSE {TokenTypeName}

-----------------------------------------------------------------------------
(* encoding/json on the values that occur: objects whose values are        *)
(* strings, and the call object {name, arguments}.                         *)

JsonFail == [ok |-> FALSE, pos |-> 0, v |-> ""]

\* the keys that occur, in the order json.Marshal writes the keys of a map
\* (sort.Strings)
KeyOrder == <<"arguments", "name", "output_file", "query", "raw", "sample", "table_name">>

\* the escapes json.Marshal writes as \u00XX, and what they stand for
UnicodeEscapes == [u003c |-> "<", u003e |-> ">", u0026 |-> "&"]

\* the escape sequence json.Marshal writes for a character, or the character
EscapeChar(c) ==
    CASE c = "\"" -> "\\\""
      [] c = "\\" -> "\\\\"
      [] c = "\n" -> "\\n"
      [] c = "<"  -> "\\u003c"
      [] c = ">"  -> "\\u003e"
      [] c = "&"  -> "\\u0026"
      [] OTHER    -> c

RECURSIVE EscapeString(_)
EscapeString(s) ==
    IF s = "" THEN "" ELSE EscapeChar(CharAt(s, 1)) \o EscapeString(SubSeq(s, 2, Len(s)))

\* json.Marshal of a string that writes the characters as they are
MarshalStringRaw(s) == "\"" \o s \o "\""

\* json.Marshal of a string
MarshalString(s) == "\"" \o EscapeString(s) \o "\""

\* json.Marshal of a map[string]interface{} whose values are strings
MarshalMap(m) ==
    LET keys == SelectSeq(KeyOrder, LAMBDA k : k \in DOMAIN m)
        member(k) == MarshalString(k) \o ":" \o MarshalString(m[k])
    IN  "{" \o Join([i \in 1..Len(keys) |-> member(keys[i])], ",") \o "}"

RECURSIVE SkipSpace(_, _)
\* the decoder skips white space between tokens
SkipSpace(s, i) ==
    IF i <= Len(s) /\ IsSpace(CharAt(s, i)) THEN SkipSpace(s, i + 1) ELSE i

RECURSIVE ScanString(_, _, _)
\* the decoder reads a string literal from behind its opening quote
ScanString(s, i, acc) ==
    IF i > Len(s) THEN JsonFail
    ELSE LET c == CharAt(s, i)
         IN  IF c = "\"" THEN [ok |-> TRUE, pos |-> i + 1, v |-> acc]
             ELSE IF c = "\n" THEN JsonFail
             ELSE IF c # "\\" THEN ScanString(s, i + 1, acc \o c)
             ELSE IF i + 1 > Len(s) THEN JsonFail
             ELSE LET e == CharAt(s, i + 1)
                  IN  IF e \in {"\"", "\\", "/"} THEN ScanString(s, i + 2, acc \o e)
                      ELSE IF e = "n" THEN ScanString(s, i + 2, acc \o "\n")
                      ELSE IF e = "u" /\ i + 5 <= Len(s)
                                /\ SubSeq(s, i + 1, i + 5) \in DOMAIN UnicodeEscapes
                      THEN ScanString(s, i + 6, acc \o UnicodeEscapes[SubSeq(s, i + 1, i + 5)])
                      ELSE JsonFail

\* the decoder reads a string literal at position i
DecodeString(s, i) ==
    IF i <= Len(s) /\ CharAt(s, i) = "\"" THEN ScanString(s, i + 1, "") ELSE JsonFail

RECURSIVE DecodeMembers(_, _, _)
\* after a member's value the object ends or another member follows
MembersNext(s, next, acc) ==
    IF next > Len(s) THEN JsonFail
    ELSE IF CharAt(s, next) = "}" THEN [ok |-> TRUE, pos |-> next + 1, v |-> acc]
    ELSE IF CharAt(s, next) = "," THEN DecodeMembers(s, next + 1, acc)
    ELSE JsonFail

\* the member's value has been read as val
MemberValue(s, key, val, acc) ==
    IF ~val.ok THEN JsonFail
    ELSE MembersNext(s, SkipSpace(s, val.pos), MapSet(acc, key, val.v))

\* the member's key has been read; a colon and a string follow
MemberColon(s, key, colon, acc) ==
    IF colon > Len(s) \/ CharAt(s, colon) # ":" THEN JsonFail
    ELSE MemberValue(s, key, DecodeString(s, SkipSpace(s, colon + 1)), acc)

\* the member's key has been read as k
MemberKey(s, k, acc) ==
    IF ~k.ok THEN JsonFail ELSE MemberColon(s, k.v, SkipSpace(s, k.pos), acc)

\* the decoder reads the members of an object of strings from position i
DecodeMembers(s, i, acc) == MemberKey(s, DecodeString(s, SkipSpace(s, i)), acc)

\* the decoder reads an object of strings at position i
DecodeMapAt(s, i, j) ==
    IF i > Len(s) \/ CharAt(s, i) # "{" THEN JsonFail
    ELSE IF j <= Len(s) /\ CharAt(s, j) = "}"
    THEN [ok |-> TRUE, pos |-> j + 1, v |-> EmptyMap]
    ELSE DecodeMembers(s, i + 1, EmptyMap)

DecodeMap(s, i) == DecodeMapAt(s, i, SkipSpace(s, i + 1))

RECURSIVE DecodeCallMembers(_, _, _)
\* after a member's value the call object ends or another member follows
CallMembersNext(s, next, acc) ==
    IF next > Len(s) THEN JsonFail
    ELSE IF CharAt(s, next) = "}" THEN [ok |-> TRUE, pos |-> next + 1, v |-> acc]
    ELSE IF CharAt(s, next) = "," THEN DecodeCallMembers(s, next + 1, acc)
    ELSE JsonFail

\* the value of a member goes to the field of its name (field names match
\* without regard to case); a member of another name is dropped
CallMemberStore(field, v, acc) ==
    IF field = "name" THEN [acc EXCEPT !.Name = v]
    ELSE IF field = "arguments" THEN [acc EXCEPT !.Arguments = v]
    ELSE acc

\* the member's value has been read as val
CallMemberValue(s, field, val, acc) ==
    IF ~val.ok THEN JsonFail
    ELSE CallMembersNext(s, SkipSpace(s, val.pos), CallMemberStore(field, val.v, acc))

\* the member's value starts at position at: Name takes a string, Arguments an
\* object, a member of another name either
CallMemberAt(s, field, at, acc) ==
    CallMemberValue(s, field,
                    IF at <= Len(s) /\ CharAt(s, at) = "{" /\ field # "name"
                    THEN DecodeMap(s, at)
                    ELSE IF field # "arguments" THEN DecodeString(s, at)
                    ELSE JsonFail,
                    acc)

\* the member's key has been read; a colon and the value follow
CallMemberColon(s, field, colon, acc) ==
    IF colon > Len(s) \/ CharAt(s, colon) # ":" THEN JsonFail
    ELSE CallMemberAt(s, field, SkipSpace(s, colon + 1), acc)

\* the member's key has been read as k
CallMemberKey(s, k, acc) ==
    IF ~k.ok THEN JsonFail
    ELSE CallMemberColon(s, ToLower(k.v), SkipSpace(s, k.pos), acc)

\* the decoder reads the members of the call object into the fields Name and
\* Arguments
DecodeCallMembers(s, i, acc) ==
    CallMemberKey(s, DecodeString(s, SkipSpace(s, i)), acc)

\* the call object has been read as d: nothing but white space may follow
DecodeCallEnd(s, d) ==
    IF d.ok /\ SkipSpace(s, d.pos) > Len(s)
    THEN [ok |-> TRUE, Name |-> d.v.Name, Arguments |-> d.v.Arguments]
    ELSE [ok |-> FALSE, Name |-> "", Arguments |-> EmptyMap]

\* the call object opens at position i and its first member or its end is at j
DecodeCallAt(s, i, j) ==
    IF i > Len(s) \/ CharAt(s, i) # "{" THEN JsonFail
    ELSE IF j <= Len(s) /\ CharAt(s, j) = "}"
    THEN [ok |-> TRUE, pos |-> j + 1, v |-> [Name |-> "", Arguments |-> EmptyMap]]
    ELSE DecodeCallMembers(s, i + 1, [Name |-> "", Arguments |-> EmptyMap])

DecodeCallFrom(s, i) == DecodeCallEnd(s, DecodeCallAt(s, i, SkipSpace(s, i + 1)))

\* json.Unmarshal of a text into struct{Name; Arguments}: one object and
\* nothing but white space around it
DecodeCall(s) == DecodeCallFrom(s, SkipSpace(s, 1))

-----------------------------------------------------------------------------
(* Reply interpretation: the non-streaming branch of                       *)
(* QwenModel.GenerateContent (internal/client, colors.go 476-568).         *)

ToolNames == {"GetDatabaseSchema", "GetTableSample", "ExecuteQuery"}

LineCallSchema == "{\"name\":\"GetDatabaseSchema\",\"arguments\":{}}"
LineCallSample == "{\"name\":\"GetTableSample\",\"arguments\":{\"table_name\":\"patients\"}}"
LineEmptyName == "{\"name\":\"\",\"arguments\":{}}"
LineProse == "Done."
\* a call pretty-printed over two lines
LineOpen == "{\"name\":\"GetDatabaseSchema\","
LineClose == "\"arguments\":{}}"

\* the lines a reply's text is made of
Lines == {"", LineCallSchema, "  " \o LineCallSample, LineEmptyName, LineProse,
          LineOpen, LineClose}

MaxLines == 3

\* the texts of a reply: up to MaxLines lines joined by newlines
Contents ==
    {Join(ls, "\n") : ls \in UNION {[1..n -> Lines] : n \in 0..MaxLines}}

\* the argument payloads of a native tool call
Payloads == {"{}", "oops"}

NativeCalls == [name : {"GetDatabaseSchema", "GetTableSample"}, arguments : Payloads]

MaxToolCalls == 2

\* the chat completions GenerateContent is given
Replies ==
    [err : BOOLEAN,
     choices : 0..1,
     toolCalls : UNION {[1..n -> NativeCalls] : n \in 0..MaxToolCalls},
     content : Contents]

NoArgs == [x \in {} |-> ""]

\* json.Unmarshal([]byte(s), &funcCall) into struct{Name; Arguments}
JsonUnmarshalCall(s) == DecodeCall(s)

\* the object has been read as d: nothing but white space may follow
DecodeMapEnd(s, d) ==
    IF d.ok /\ SkipSpace(s, d.pos) > Len(s)
    THEN [ok |-> TRUE, args |-> d.v]
    ELSE [ok |-> FALSE, args |-> NoArgs]

\* json.Unmarshal([]byte(tc.Function.Arguments), &args) into a map
JsonUnmarshalMap(s) == DecodeMapEnd(s, DecodeMap(s, SkipSpace(s, 1)))

TextPart(text) == [kind |-> "Text", Text |-> text]

FunctionCallPart(name, args) == [kind |-> "FunctionCall", Name |-> name, Args |-> args]

\* the native branch without the fallback: no arguments when the payload
\* does not decode
NativePartsNoFallback(toolCalls) ==
    [i \in 1..Len(toolCalls) |->
        FunctionCallPart(toolCalls[i].name, JsonUnmarshalMap(toolCalls[i].arguments).args)]

\* the native branch: one part per tool call of the message
NativeParts(toolCalls) ==
    [i \in 1..Len(toolCalls) |->
        LET u == JsonUnmarshalMap(toolCalls[i].arguments)
        IN  FunctionCallPart(toolCalls[i].name,
                             IF u.ok THEN u.args ELSE [raw |-> toolCalls[i].arguments])]

\* the indices of the lines that decode as a call with a non-empty name
CallLines(lines) ==
    {i \in 1..Len(lines) :
        LET line == TrimSpace(lines[i])
        IN  /\ line # ""
            /\ JsonUnmarshalCall(line).ok
            /\ JsonUnmarshalCall(line).Name # ""}

\* the per-line loop without its break: a part for every call line
ParseLinesNoBreak(lines) ==
    LET idx == CallLines(lines)
        RECURSIVE Collect(_)
        Collect(i) ==
            IF i > Len(lines) THEN <<>>
            ELSE IF i \in idx
            THEN LET d == JsonUnmarshalCall(TrimSpace(lines[i]))
                 IN  <<FunctionCallPart(d.Name, d.Arguments)>> \o Collect(i + 1)
            ELSE Collect(i + 1)
    IN  Collect(1)

\* the per-line loop: the first line that decodes as a call, then break
ParseLines(lines) ==
    LET idx == CallLines(lines)
    IN  IF idx = {} THEN <<>>
        ELSE LET d == JsonUnmarshalCall(TrimSpace(lines[Min(idx)]))
             IN  <<FunctionCallPart(d.Name, d.Arguments)>>

\* the branch for a message with text and no native tool call
ContentParts(messageContent) ==
    LET content == TrimSpace(messageContent)
        parts == ParseLines(Split(content, "\n"))
    IN  IF Len(parts) # 0 THEN parts
        ELSE LET d == JsonUnmarshalCall(content)
             IN  IF d.ok /\ d.Name # ""
                 THEN <<FunctionCallPart(d.Name, d.Arguments)>>
                 ELSE <<TextPart(content)>>

\* what GenerateContent yields for a chat completion
GenerateContent(r) ==
    IF r.err \/ r.choices = 0
    THEN [err |-> TRUE, parts |-> <<>>, TurnComplete |-> FALSE]
    ELSE LET parts == IF Len(r.toolCalls) > 0 THEN NativeParts(r.toolCalls)
                      ELSE IF r.content # "" THEN ContentParts(r.content)
                      ELSE <<>>
         IN  [err |-> FALSE,
              parts |-> IF Len(parts) = 0 THEN <<TextPart("")>> ELSE parts,
              TurnComplete |-> TRUE]

\* the backend has answered a request with one of the replies
InitInterp ==
    /\ InitTok /\ track = FALSE /\ ToolsIdle /\ RunIdle /\ DriveIdle /\ ConcIdle /\ HistIdle
    /\ reply \in Replies
    /\ resp = NoResp
    /\ ipc = "request"

\* GenerateContent interprets the reply and yields its response
Interpret ==
    /\ ipc = "request"
    /\ resp' = GenerateContent(reply)
    /\ ipc' = "done"
    /\ UNCHANGED <<reply, tokVars, toolVars, runVars, driveVars, concVars, histVars>>

NextInterp == Interpret

SpecInterp == InitInterp /\ [][NextInterp]_vars

-----------------------------------------------------------------------------
(* The request GenerateContent builds from the system instruction and the  *)
(* conversation history (colors.go 339-391).                               *)

\* a function response of the history, with the result of the tool
HistoryResponsePart(name, response) ==
    [kind |-> "FunctionResponse", Name |-> name, Response |-> response]

\* the tool calls recorded in the histories explored: without arguments, with
\* one, with the raw fallback, and with two arguments whose text holds a
\* quote, a line break and a character json.Marshal writes as \u00XX
HistoryCalls ==
    {FunctionCallPart("GetDatabaseSchema", NoArgs),
     FunctionCallPart("GetTableSample", [table_name |-> "patients"]),
     FunctionCallPart("GetTableSample", [raw |-> "oops"]),
     FunctionCallPart("ExecuteQuery",
                      [query |-> "SELECT \"id\"\nFROM t WHERE a < 1", output_file |-> "out.csv"])}

\* the Parts of the history messages explored
HistoryPartSeqs ==
    {<<TextPart("")>>, <<TextPart("Find the patients")>>,
     <<HistoryResponsePart("GetTableSample", [sample |-> "id: 1"])>>,
     <<TextPart("Let me look."), FunctionCallPart("GetDatabaseSchema", NoArgs)>>}
        \cup {<<c>> : c \in HistoryCalls}

\* genai.RoleUser, genai.RoleModel
Roles == {"user", "model"}

HistoryContents == [Role : Roles, Parts : HistoryPartSeqs]

\* the longest history explored
MaxHistory == 2

Histories == UNION {[1..n -> HistoryContents] : n \in 0..MaxHistory}

\* the Parts of req.Config.SystemInstruction
SystemInstructions == {<<>>, <<"">>, <<"You are ", "an SQL agent.">>}

\* the hint that follows a tool result
NextCallHint == "\nTeper vyzovi sleduyushchuyu funktsiyu v JSON formate."

\* the text a part adds to its message
PartText(part) ==
    CASE part.kind = "Text" -> part.Text
      [] part.kind = "FunctionCall" ->
            "{" \o MarshalString("arguments") \o ":" \o MarshalMap(part.Args) \o ","
                \o MarshalString("name") \o ":" \o MarshalString(part.Name) \o "}"
      [] part.kind = "FunctionResponse" ->
            "\nRezultat vypolneniya funktsii " \o part.Name \o ": "
                \o MarshalMap(part.Response) \o NextCallHint

\* the text collected from all parts of a history message
ContentText(content) ==
    Join([i \in 1..Len(content.Parts) |-> PartText(content.Parts[i])], "")

HasPart(content, kind) == \E i \in 1..Len(content.Parts) : content.Parts[i].kind = kind

\* the messages a history message adds to the request: one, or none
ContentMessages(content) ==
    LET text == ContentText(content)
    IN  IF text = "" THEN <<>>
        ELSE IF content.Role = "user" \/ HasPart(content, "FunctionResponse")
        THEN <<[role |-> "user", text |-> text]>>
        ELSE IF content.Role = "model" \/ HasPart(content, "FunctionCall")
        THEN <<[role |-> "assistant", text |-> text]>>
        ELSE <<>>

\* the system message, if the instruction has text
SystemMessages(instruction) ==
    IF Join(instruction, "") = "" THEN <<>>
    ELSE <<[role |-> "system", text |-> Join(instruction, "")]>>

RECURSIVE HistoryMessages(_)
HistoryMessages(cs) ==
    IF cs = <<>> THEN <<>> ELSE ContentMessages(Head(cs)) \o HistoryMessages(Tail(cs))

\* the request with the messages of the history newest first
RequestMessagesNewestFirst(instruction, cs) ==
    SystemMessages(instruction)
        \o HistoryMessages([i \in 1..Len(cs) |-> cs[Len(cs) + 1 - i]])

\* params.Messages
RequestMessages(instruction, cs) == SystemMessages(instruction) \o HistoryMessages(cs)

\* GenerateContent is called with an instruction and a history
InitHistory ==
    /\ InitTok /\ track = FALSE /\ InterpIdle /\ ToolsIdle /\ RunIdle /\ DriveIdle
    /\ ConcIdle
    /\ sysInstruction \in SystemInstructions
    /\ contents \in Histories
    /\ messages = <<>>
    /\ hpc = "called"

\* GenerateContent builds the messages of the request
BuildRequest ==
    /\ hpc = "called"
    /\ messages' = RequestMessages(sysInstruction, contents)
    /\ hpc' = "built"
    /\ UNCHANGED <<sysInstruction, contents>>
    /\ UNCHANGED <<tokVars, interpVars, toolVars, runVars, driveVars, concVars>>

NextHistory == BuildRequest

SpecHistory == InitHistory /\ [][NextHistory]_vars

-----------------------------------------------------------------------------
(* The event loop of Run (internal/agent/runner.go) and of main            *)
(* (cmd/main.go): the callback handed to the event sequence of the runner. *)

FunctionResponsePart(name) == [kind |-> "FunctionResponse", Name |-> name]

\* a nil entry of Content.Parts
NilPart == [kind |-> "nil"]

\* the function names the events of a run carry
RunNames == {"GetTableSample", "ExecuteQuery"}

\* the longest Content.Parts of an event
MaxParts == 2

EventParts ==
    {TextPart("Done."), NilPart}
        \cup {FunctionCallPart(n, NoArgs) : n \in RunNames}
        \cup {FunctionResponsePart(n) : n \in RunNames}

PartSeqs == UNION {[1..k -> EventParts] : k \in 0..MaxParts}

\* what the sequence hands to the callback: an error, a nil event, or an
\* event with its parts and the answer of ev.IsFinalResponse()
ErrEvent == [kind |-> "err"]
NilEvent == [kind |-> "nil"]
\* the answers ev.IsFinalResponse() can give for an event with these parts:
\* an event that carries a function call or a function response is not
\* final; an event of text is final unless it is a partial one
FinalAnswers(ps) ==
    IF \E i \in 1..Len(ps) : ps[i].kind \in {"FunctionCall", "FunctionResponse"}
    THEN {FALSE}
    ELSE BOOLEAN

Events ==
    {ErrEvent, NilEvent}
        \cup UNION {{[kind |-> "event", Parts |-> ps, final |-> f] : f \in FinalAnswers(ps)} :
                       ps \in PartSeqs}

\* the largest --max-attempts of the runs explored besides the limit of main
MaxM == 2

\* the largest number of model requests of the runs explored
MaxTurns == 3

\* runCfg.MaxAttempts: the flag is an int that is not validated
MaxAttempts == -1..MaxM

\* maxCallsPerFunction of cmd/main.go
MainMaxCalls == 5

CallCountOf(count, funcName) ==
    IF funcName \in DOMAIN count THEN count[funcName] ELSE 0

\* the guard with the comparison turned into "at least"
LoopDetectedAtLimit(count, max) == count >= max

\* if callCount[funcName] > maxCallsPerFunction
LoopDetected(count, max) == count > max

\* for _, p := range ev.Content.Parts: counts every function call and stops
\* at the first one the guard rejects
RECURSIVE RangeParts(_, _, _)
RangeParts(parts, count, max) ==
    IF parts = <<>> THEN [callCount |-> count, stop |-> FALSE]
    ELSE LET p == Head(parts)
         IN  IF p.kind = "FunctionCall"
             THEN LET funcName == p.Name
                      inc == MapSet(count, funcName, CallCountOf(count, funcName) + 1)
                  IN  IF LoopDetected(inc[funcName], max)
                      THEN [callCount |-> inc, stop |-> TRUE]
                      ELSE RangeParts(Tail(parts), inc, max)
             ELSE RangeParts(Tail(parts), count, max)

\* the callback without the loop guard: it counts the calls and goes on
CallbackNoGuard(ev, count, max) ==
    IF ev.kind = "err" THEN [callCount |-> count, continue |-> FALSE, reason |-> "error"]
    ELSE IF ev.kind = "nil" THEN [callCount |-> count, continue |-> TRUE, reason |-> ""]
    ELSE LET r == RangeParts(ev.Parts, count, max + MaxTurns * MaxToolCalls + 1)
         IN  IF ev.final
             THEN [callCount |-> r.callCount, continue |-> FALSE, reason |-> "final"]
             ELSE [callCount |-> r.callCount, continue |-> TRUE, reason |-> ""]

\* the callback that takes every event without function call for the end
CallbackStopOnText(ev, count, max) ==
    IF ev.kind = "err" THEN [callCount |-> count, continue |-> FALSE, reason |-> "error"]
    ELSE IF ev.kind = "nil" THEN [callCount |-> count, continue |-> TRUE, reason |-> ""]
    ELSE LET r == RangeParts(ev.Parts, count, max)
         IN  IF r.stop
             THEN [callCount |-> r.callCount, continue |-> FALSE, reason |-> "loop"]
             ELSE IF ev.final \/ \A i \in 1..Len(ev.Parts) : ev.Parts[i].kind # "FunctionCall"
             THEN [callCount |-> r.callCount, continue |-> FALSE, reason |-> "final"]
             ELSE [callCount |-> r.callCount, continue |-> TRUE, reason |-> ""]

\* the callback: its effect on callCount, whether it returns true (continue)
\* and why it returned false
Callback(ev, count, max) ==
    IF ev.kind = "err" THEN [callCount |-> count, continue |-> FALSE, reason |-> "error"]
    ELSE IF ev.kind = "nil" THEN [callCount |-> count, continue |-> TRUE, reason |-> ""]
    ELSE LET r == RangeParts(ev.Parts, count, max)
         IN  IF r.stop
             THEN [callCount |-> r.callCount, continue |-> FALSE, reason |-> "loop"]
             ELSE IF ev.final
             THEN [callCount |-> r.callCount, continue |-> FALSE, reason |-> "final"]
             ELSE [callCount |-> r.callCount, continue |-> TRUE, reason |-> ""]

\* what Run returns once the event sequence has stopped: return nil, whatever
\* stopped it
RunReturn == "nil"

\* Run starts the event loop with the limit of the run configuration
RunStart ==
    /\ rpc = "idle"
    /\ \E m \in MaxAttempts : maxCallsPerFunction' = m
    /\ callCount' = NoCalls
    /\ rpc' = "events"
    /\ UNCHANGED <<stopReason, runErr, lastEv, tokVars, interpVars, toolVars, driveVars, concVars, histVars>>

\* main starts the event loop with its fixed limit
MainStart ==
    /\ rpc = "idle"
    /\ maxCallsPerFunction' = MainMaxCalls
    /\ callCount' = NoCalls
    /\ rpc' = "events"
    /\ UNCHANGED <<stopReason, runErr, lastEv, tokVars, interpVars, toolVars, driveVars, concVars, histVars>>

\* the sequence hands one event to the callback
OnEvent ==
    /\ rpc = "events"
    /\ \E ev \in Events :
          LET r == Callback(ev, callCount, maxCallsPerFunction)
          IN  /\ lastEv' = ev
              /\ callCount' = r.callCount
              /\ stopReason' = r.reason
              /\ rpc' = IF r.continue THEN "events" ELSE "returned"
              /\ runErr' = IF r.continue THEN runErr ELSE RunReturn
    /\ UNCHANGED <<maxCallsPerFunction, tokVars, interpVars, toolVars, driveVars, concVars, histVars>>

\* the sequence ends without another event
SeqEnd ==
    /\ rpc = "events"
    /\ rpc' = "returned"
    /\ runErr' = RunReturn
    /\ UNCHANGED <<maxCallsPerFunction, callCount, stopReason, lastEv, tokVars, interpVars,
                   toolVars, driveVars, concVars, histVars>>

InitRun == InitTok /\ track = FALSE /\ InterpIdle /\ ToolsIdle /\ RunIdle /\ DriveIdle /\ ConcIdle /\ HistIdle

NextRun == RunStart \/ MainStart \/ OnEvent \/ SeqEnd

SpecRun == InitRun /\ [][NextRun]_vars

-----------------------------------------------------------------------------
(* The run as a whole: the runner behind the event sequence (spec 4.3,      *)
(* Conversation Driver) asks the model, hands the interpreted reply to the  *)
(* callback as an event and, when the callback lets it go on, dispatches    *)
(* the function calls of the event and hands their responses back.          *)

\* a native tool call with its argument payload
NativeCall(name, arguments) == [name |-> name, arguments |-> arguments]

\* a chat completion with text only
TextReply(content) == [err |-> FALSE, choices |-> 1, toolCalls |-> <<>>, content |-> content]

\* the chat completions of the runs explored: a transport error, prose, one
\* call line, two call lines, one native call of two of the tools, two native
\* calls of different tools and of the same tool
DriveReplies ==
    {[err |-> TRUE, choices |-> 0, toolCalls |-> <<>>, content |-> ""],
     TextReply(LineProse),
     TextReply(""),
     TextReply(LineCallSchema),
     TextReply(LineCallSample),
     TextReply(LineCallSchema \o "\n" \o LineCallSample),
     [err |-> FALSE, choices |-> 1, content |-> "",
      toolCalls |-> <<NativeCall("GetTableSample", "{\"table_name\":\"patients\"}")>>],
     [err |-> FALSE, choices |-> 1, content |-> "",
      toolCalls |-> <<NativeCall("ExecuteQuery", "{}")>>],
     [err |-> FALSE, choices |-> 1, content |-> "",
      toolCalls |-> <<NativeCall("GetDatabaseSchema", "{}"),
                      NativeCall("GetTableSample", "{\"table_name\":\"patients\"}")>>],
     [err |-> FALSE, choices |-> 1, content |-> "",
      toolCalls |-> <<NativeCall("GetDatabaseSchema", "{}"),
                      NativeCall("GetDatabaseSchema", "{}")>>]}

\* GenerateContent's response to each reply, computed once
DriveResponses == [r \in DriveReplies |-> GenerateContent(r)]

\* the events the runner makes of a response of GenerateContent
EventsOf(r) ==
    IF r.err THEN {ErrEvent}
    ELSE {[kind |-> "event", Parts |-> r.parts, final |-> f] : f \in FinalAnswers(r.parts)}

\* the function calls of an event, in their order
RECURSIVE FunctionCalls(_)
FunctionCalls(parts) ==
    IF parts = <<>> THEN <<>>
    ELSE IF Head(parts).kind = "FunctionCall"
    THEN <<Head(parts)>> \o FunctionCalls(Tail(parts))
    ELSE FunctionCalls(Tail(parts))

\* the tables the replies of a run ask a sample of
DriveTables == {"patients"}

\* GetTableSample's result for each of them, with and without a connection,
\* computed once
SampleResults ==
    [c \in BOOLEAN |-> [t \in DriveTables |-> GetTableSample(c, t, 0)]]

\* the tool of a function call runs: GetTableSample with its table name, any
\* other tool without a result that the run looks at
CallTool(call) ==
    IF call.Name = "GetTableSample" /\ "table_name" \in DOMAIN call.Args
    THEN [tool |-> "GetTableSample", table_name |-> call.Args.table_name,
          result |-> SampleResults[dbConnection][call.Args.table_name]]
    ELSE [tool |-> call.Name]

\* Run has initialised the tokenizer and connected the database; it starts the
\* runner and the event loop
DriveStart ==
    /\ rpc = "idle" /\ dpc = "idle"
    /\ \E m \in MaxAttempts : maxCallsPerFunction' = m
    /\ callCount' = NoCalls
    /\ rpc' = "events"
    /\ dpc' = "AwaitingModel"
    /\ dbConnection' = TRUE
    /\ UNCHANGED <<stopReason, runErr, lastEv, tokVars, interpVars, files, toolRes,
                   pending, turnCalls, requests, execCount, concVars, histVars>>

\* one model turn: the request is sent, GenerateContent interprets the reply,
\* the runner hands the response to the callback as an event; when the
\* callback returns true the function calls of the event wait for dispatch;
\* requests counts the turns up to MaxTurns
TurnStep ==
    /\ dpc = "AwaitingModel" /\ rpc = "events"
    /\ \E r \in DriveReplies :
          \E e \in EventsOf(DriveResponses[r]) :
              LET c == Callback(e, callCount, maxCallsPerFunction)
                  calls == IF e.kind = "event" THEN FunctionCalls(e.Parts) ELSE <<>>
              IN  /\ reply' = r
                  /\ resp' = DriveResponses[r]
                  /\ ipc' = "done"
                  /\ requests' = IF requests < MaxTurns THEN requests + 1 ELSE requests
                  /\ turnCalls' = <<>>
                  /\ lastEv' = e
                  /\ callCount' = c.callCount
                  /\ stopReason' = c.reason
                  /\ rpc' = IF c.continue THEN "events" ELSE "returned"
                  /\ runErr' = IF c.continue THEN runErr ELSE RunReturn
                  /\ pending' = IF c.continue THEN calls ELSE <<>>
                  /\ dpc' = IF ~c.continue THEN "Terminal"
                            ELSE IF calls # <<>> THEN "Dispatching"
                            ELSE "AwaitingModel"
    /\ UNCHANGED <<maxCallsPerFunction, execCount, tokVars, toolVars, concVars, histVars>>

\* a model turn of a run of at most MaxTurns turns
ModelTurn == requests < MaxTurns /\ TurnStep

\* the next function call of the turn is dispatched; after the last one the
\* responses go to the callback as an event and the runner asks the model
\* again
Dispatch ==
    /\ dpc = "Dispatching" /\ rpc = "events"
    /\ pending # <<>>
    /\ LET call == Head(pending)
           done == Append(turnCalls, call.Name)
           e == [kind |-> "event",
                 Parts |-> [i \in 1..Len(done) |-> FunctionResponsePart(done[i])],
                 final |-> FALSE]
           c == Callback(e, callCount, maxCallsPerFunction)
       IN  /\ toolRes' = CallTool(call)
           /\ execCount' = MapSet(execCount, call.Name, CallCountOf(execCount, call.Name) + 1)
           /\ turnCalls' = done
           /\ pending' = Tail(pending)
           /\ IF Tail(pending) = <<>>
              THEN /\ lastEv' = e
                   /\ callCount' = c.callCount
                   /\ stopReason' = c.reason
                   /\ dpc' = "AwaitingModel"
              ELSE UNCHANGED <<lastEv, callCount, stopReason, dpc>>
    /\ UNCHANGED <<maxCallsPerFunction, rpc, runErr, requests, dbConnection, files,
                   tokVars, interpVars, concVars, histVars>>

InitDrive == InitTok /\ track = FALSE /\ InterpIdle /\ ToolsIdle /\ RunIdle /\ DriveIdle /\ ConcIdle /\ HistIdle

NextDrive == DriveStart \/ ModelTurn \/ Dispatch

SpecDrive == InitDrive /\ [][NextDrive]_vars

\* the run with no limit on its turns, in which every model call and every
\* tool dispatch returns
NextLive == DriveStart \/ TurnStep \/ Dispatch

SpecLive == InitDrive /\ [][NextLive]_vars /\ WF_vars(NextLive)

-----------------------------------------------------------------------------
(* Concurrent calls of the tokenizer.  Each goroutine makes one call; a     *)
(* call is cut into steps where the code takes and releases Tokenizer.mu.   *)

\* the values the goroutines tokenize: the two share their hash prefix
ConcValues == {"v58213", "v67279"}

\* the calls a goroutine can make
ConcOps ==
    [op : {"Tokenize", "TokenizeWithHash"}, value : ConcValues, type : TokenTypes]
        \cup [op : {"Detokenize"}, token : {"NAME_001", "NAME_cdffd75c"}]
        \cup [op : {"SetEnabled"}, enabled : BOOLEAN]
        \cup {[op |-> "Clear"], [op |-> "GetStats"]}

\* the calls that take the write lock, and those that take the read lock
WriteOps == {"Tokenize", "TokenizeWithHash", "SetEnabled", "Clear"}
ReadOps == {"Detokenize", "GetStats"}

\* the calls that look at t.enabled before they take the lock
CheckedOps == {"Tokenize", "TokenizeWithHash", "Detokenize"}

\* the tokenizer as the code sees it once it is past the enabled check
PastCheck == [Tokenizer EXCEPT !.enabled = TRUE]

\* a goroutine enters its call
GoCall(g) ==
    /\ cpc[g] = "idle"
    /\ \E o \in ConcOps :
        /\ cop' = [cop EXCEPT ![g] = o]
        /\ cpc' = [cpc EXCEPT ![g] =
                      IF o.op \in CheckedOps THEN "check"
                      ELSE IF o.op \in WriteOps THEN "lock" ELSE "rlock"]
    /\ UNCHANGED <<mu, rlocks, cres>>
    /\ UNCHANGED <<tokVars, interpVars, toolVars, runVars, driveVars, histVars>>

\* `if !t.enabled || value == ""`, read without the lock
GoCheckEnabled(g) ==
    /\ cpc[g] = "check"
    /\ IF ~enabled
       THEN /\ cres' = [cres EXCEPT ![g] =
                           [op |-> cop[g].op,
                            out |-> IF cop[g].op = "Detokenize"
                                    THEN cop[g].token ELSE cop[g].value,
                            minted |-> FALSE]]
            /\ cpc' = [cpc EXCEPT ![g] = "done"]
       ELSE /\ cpc' = [cpc EXCEPT ![g] =
                          IF cop[g].op \in WriteOps THEN "lock" ELSE "rlock"]
            /\ UNCHANGED cres
    /\ UNCHANGED <<mu, rlocks, cop>>
    /\ UNCHANGED <<tokVars, interpVars, toolVars, runVars, driveVars, histVars>>

\* t.mu.Lock()
GoLock(g) ==
    /\ cpc[g] = "lock"
    /\ mu = 0 /\ rlocks = {}
    /\ mu' = g
    /\ cpc' = [cpc EXCEPT ![g] = "held"]
    /\ UNCHANGED <<rlocks, cop, cres>>
    /\ UNCHANGED <<tokVars, interpVars, toolVars, runVars, driveVars, histVars>>

\* the body of a writing call, up to the deferred t.mu.Unlock()
GoBody(g) ==
    /\ cpc[g] = "held"
    /\ mu = g
    /\ LET o == cop[g]
       IN  CASE o.op = "Tokenize" ->
                    LET r == Tokenize(PastCheck, o.value, o.type)
                    IN  /\ tokenMap' = r.t.tokenMap
                        /\ reverseMap' = r.t.reverseMap
                        /\ counters' = r.t.counters
                        /\ cres' = [cres EXCEPT ![g] =
                                       [op |-> o.op, out |-> r.token,
                                        minted |-> (r.t # PastCheck)]]
                        /\ UNCHANGED enabled
             [] o.op = "TokenizeWithHash" ->
                    LET r == TokenizeWithHash(PastCheck, o.value, o.type)
                    IN  /\ tokenMap' = r.t.tokenMap
                        /\ reverseMap' = r.t.reverseMap
                        /\ counters' = r.t.counters
                        /\ cres' = [cres EXCEPT ![g] =
                                       [op |-> o.op, out |-> r.token,
                                        minted |-> (r.t # PastCheck)]]
                        /\ UNCHANGED enabled
             [] o.op = "SetEnabled" ->
                    /\ enabled' = o.enabled
                    /\ cres' = [cres EXCEPT ![g] = [op |-> o.op]]
                    /\ UNCHANGED <<tokenMap, reverseMap, counters>>
             [] o.op = "Clear" ->
                    /\ tokenMap' = EmptyMap
                    /\ reverseMap' = EmptyMap
                    /\ counters' = EmptyMap
                    /\ cres' = [cres EXCEPT ![g] = [op |-> o.op]]
                    /\ UNCHANGED enabled
    /\ mu' = 0
    /\ cpc' = [cpc EXCEPT ![g] = "done"]
    /\ UNCHANGED <<rlocks, cop>>
    /\ UNCHANGED <<hashed, issued, track, ret>>
    /\ UNCHANGED <<interpVars, toolVars, runVars, driveVars, histVars>>

\* t.mu.RLock()
GoRLock(g) ==
    /\ cpc[g] = "rlock"
    /\ mu = 0
    /\ rlocks' = rlocks \cup {g}
    /\ cpc' = [cpc EXCEPT ![g] = "rheld"]
    /\ UNCHANGED <<mu, cop, cres>>
    /\ UNCHANGED <<tokVars, interpVars, toolVars, runVars, driveVars, histVars>>

\* the body of a reading call, up to the deferred t.mu.RUnlock()
GoRBody(g) ==
    /\ cpc[g] = "rheld"
    /\ g \in rlocks
    /\ cres' = [cres EXCEPT ![g] =
                   IF cop[g].op = "Detokenize"
                   THEN [op |-> "Detokenize",
                         out |-> Detokenize(PastCheck, cop[g].token),
                         minted |-> FALSE]
                   ELSE [op |-> "GetStats", stats |-> GetStats(Tokenizer)]]
    /\ rlocks' = rlocks \ {g}
    /\ cpc' = [cpc EXCEPT ![g] = "done"]
    /\ UNCHANGED <<mu, cop>>
    /\ UNCHANGED <<tokVars, interpVars, toolVars, runVars, driveVars, histVars>>

InitConc ==
    /\ InitTok /\ track = FALSE /\ InterpIdle /\ ToolsIdle /\ RunIdle /\ DriveIdle
    /\ ConcIdle /\ HistIdle

NextConc ==
    \E g \in Threads :
        \/ GoCall(g)
        \/ GoCheckEnabled(g)
        \/ GoLock(g)
        \/ GoBody(g)
        \/ GoRLock(g)
        \/ GoRBody(g)

SpecConc == InitConc /\ [][NextConc]_vars

Init == InitTok /\ track = FALSE /\ InterpIdle /\ ToolsIdle /\ RunIdle /\ DriveIdle /\ ConcIdle /\ HistIdle

InitLifetime == InitTok /\ track = TRUE /\ InterpIdle /\ ToolsIdle /\ RunIdle /\ DriveIdle /\ ConcIdle /\ HistIdle

Next ==
    \/ DoTokenize
    \/ DoTokenizeWithHash
    \/ DoDetokenize
    \/ SetEnabled
    \/ Clear
    \/ InitTokenizer
    \/ DoGetStats

Spec == Init /\ [][Next]_vars

\* the same program with the history of issued tokens kept
SpecLifetime == InitLifetime /\ [][Next]_vars

-----------------------------------------------------------------------------
(* TokenizeMap and tokenizeValue (tokenizer.go 173-213) on the tokenizer   *)
(* of DefaultConfig.                                                       *)

\* (t *Tokenizer).detectTokenType: the types a call can return
detectTokenType(fieldName, value) ==
    DetectTokenTypes(DefaultSensitiveFields, fieldName, value)

\* (t *Tokenizer).tokenizeValue for a string value, given what
\* detectTokenType returned
tokenizeValue(t, value, tokenType) ==
    IF tokenType = "" THEN [token |-> value, t |-> t] ELSE Tokenize(t, value, tokenType)

RECURSIVE TokenizeEntries(_, _, _, _)
\* the loop of TokenizeMap over the entries of data, in the order the range
\* visits them
TokenizeEntries(t, data, order, types) ==
    IF order = <<>> THEN [t |-> t, result |-> EmptyMap]
    ELSE LET key == Head(order)
             tv == tokenizeValue(t, data[key], types[key])
             rest == TokenizeEntries(tv.t, data, Tail(order), types)
         IN  [t |-> rest.t, result |-> MapSet(rest.result, key, tv.token)]

\* the field names and the values of the maps handed to TokenizeMap: a name
\* field, a sensitive field without type keyword, a field that is not
\* sensitive; a word, and a date that also has the shape of a phone number
MapKeys == {"full_name", "account", "city"}
MapValues == {"Ivanov", "1990-05-15"}

\* the most entries a map handed to TokenizeMap has
MaxEntries == 2

MapInputs ==
    UNION {[S -> MapValues] : S \in {K \in SUBSET MapKeys : Cardinality(K) \in 1..MaxEntries}}

\* what detectTokenType can return for each field name and value handed in
DetectedTypes == [k \in MapKeys |-> [v \in MapValues |-> detectTokenType(k, v)]]

\* the orders in which a range over a map with these keys can visit them
Orders(S) ==
    {o \in [1..Cardinality(S) -> S] : \A i, j \in 1..Cardinality(S) : o[i] = o[j] => i = j}

\* a call of TokenizeMap on the global tokenizer
DoTokenizeMap ==
    \E data \in MapInputs :
        IF ~enabled
        THEN /\ ret' = [op |-> "TokenizeMap", data |-> data, result |-> data,
                        types |-> EmptyMap]
             /\ UNCHANGED <<enabled, tokenMap, reverseMap, counters, hashed, issued, track>>
             /\ UNCHANGED <<interpVars, toolVars, runVars, driveVars, concVars, histVars>>
        ELSE \E order \in Orders(DOMAIN data) :
             \E types \in [DOMAIN data -> AllTokenTypes \cup {""}] :
                /\ \A k \in DOMAIN data : types[k] \in DetectedTypes[k][data[k]]
                /\ LET r == TokenizeEntries(Tokenizer, data, order, types)
                   IN  /\ SetTokenizer(r.t)
                       /\ ret' = [op |-> "TokenizeMap", data |-> data,
                                  result |-> r.result, types |-> types]
                /\ UNCHANGED <<hashed, issued, track>>
                /\ UNCHANGED <<interpVars, toolVars, runVars, driveVars, concVars, histVars>>

NextMap == DoTokenizeMap \/ SetEnabled

SpecMap == Init /\ [][NextMap]_vars

-----------------------------------------------------------------------------
(* Properties of the tokenizer.                                            *)

\* the tokens of type tokenType that Tokenize has minted and that are recorded
CounterTokens(rm, tokenType) ==
    {tok \in DOMAIN rm : \E k \in 0..(Cardinality(DOMAIN rm) + 1) : tok = FormatToken(tokenType, k)}

\* C5: with tokenization enabled and only Tokenize calls before, for every
\* string s and type t, Detokenize(Tokenize(s, t)) = s; the same holds of the
\* Tokenize call that was just made.
C5_RoundTrip ==
    /\ (enabled /\ ~hashed) =>
          \A s \in ProbeValues, t \in AllTokenTypes :
              LET r == Tokenize(Tokenizer, s, t)
              IN  Detokenize(r.t, r.token) = s
    /\ (ret.op = "Tokenize" /\ enabled /\ ~hashed) =>
          Detokenize(Tokenizer, ret.token) = ret.value

\* C5 witness: an enabled Tokenize call has minted a token, after another
\* value was tokenized, and the token reverses to the value.
C5_Witness ==
    /\ enabled /\ ~hashed
    /\ ret.op = "Tokenize" /\ ret.minted
    /\ ret.token # ret.value
    /\ Cardinality(DOMAIN tokenMap) >= 2
    /\ Detokenize(Tokenizer, ret.token) = ret.value

\* C6: Tokenize is idempotent: a second call with the same (s, t) returns the
\* same token and leaves the counters and both maps as the first call left them.
C6_Idempotent ==
    \A s \in ProbeValues, t \in AllTokenTypes :
        LET r1 == Tokenize(Tokenizer, s, t)
            r2 == Tokenize(r1.t, s, t)
        IN  /\ r2.token = r1.token
            /\ r2.t.counters = r1.t.counters
            /\ r2.t.tokenMap = r1.t.tokenMap
            /\ r2.t.reverseMap = r1.t.reverseMap

\* C6 witness: an enabled Tokenize call on a value that was tokenized before
\* has returned the recorded token without minting.
C6_Witness ==
    /\ enabled
    /\ ret.op = "Tokenize" /\ ~ret.minted
    /\ ret.value \in DOMAIN tokenMap
    /\ ret.token = tokenMap[ret.value]
    /\ CounterOf(counters, ret.type) = 1

\* C8: a Tokenize call that mints a token of type t returns t_<n> where n is
\* one more than the number of tokens of type t minted before it (001 first),
\* so n is greater than the suffix of every earlier token of the type,
\* whatever was minted for other types in between.
C8_IncreasingSuffix ==
    [][(ret'.op = "Tokenize" /\ ret'.minted) =>
          LET t == ret'.type
              earlier == CounterTokens(reverseMap, t)
              n == Cardinality(earlier) + 1
          IN  /\ ret'.token = FormatToken(t, n)
              /\ \A k \in 1..(n - 1) : FormatToken(t, k) \in earlier
              /\ ret'.token \notin DOMAIN reverseMap]_vars

\* C8 witness: NAME_002 was minted after a token of another type was minted
\* between it and NAME_001.
C8_Witness ==
    /\ ret.op = "Tokenize" /\ ret.minted
    /\ ret.token = "NAME_002"
    /\ "NAME_001" \in DOMAIN reverseMap
    /\ "DATE_001" \in DOMAIN reverseMap
    /\ CounterOf(counters, TokenTypeDate) = 1

\* C9: while tokenization is disabled, Tokenize(s, t) = s and Detokenize(s) = s
\* for every s and t, also for values and tokens recorded while it was enabled.
C9_DisabledIdentity ==
    ~enabled =>
        /\ \A s \in ProbeValues \cup TokenInputs, t \in AllTokenTypes :
               /\ Tokenize(Tokenizer, s, t).token = s
               /\ Detokenize(Tokenizer, s) = s
        /\ ret.op = "Tokenize" => ret.token = ret.value
        /\ ret.op = "Detokenize" => ret.value = ret.token

\* C9 witness: tokenization is disabled, Detokenize was called on a token
\* recorded earlier and returned it unchanged.
C9_Witness ==
    /\ ~enabled
    /\ ret.op = "Detokenize"
    /\ ret.token \in DOMAIN reverseMap
    /\ reverseMap[ret.token] # ret.token
    /\ ret.value = ret.token

\* C7: over the whole process every value keeps the token it was first given
\* (every enabled tokenize call returns the first token issued for its value)
\* and no token is issued for two values.
C7_StableMapping ==
    /\ (ret.op \in {"Tokenize", "TokenizeWithHash"} /\ ret.value \in DOMAIN issued /\ enabled)
          => ret.token = issued[ret.value]
    /\ \A v, w \in DOMAIN issued : issued[v] = issued[w] => v = w

-----------------------------------------------------------------------------
(* Properties of the reply interpreter.                                    *)

IsCall(part) == part.kind = "FunctionCall"

\* C2: every reply that is interpreted yields exactly one part, a tool
\* invocation or a text message, never two invocations and never both.
C2_ExactlyOne ==
    (ipc = "done" /\ ~resp.err) => Len(resp.parts) = 1

\* the lines of the reply's text as the interpreter sees them
ReplyLines == Split(TrimSpace(reply.content), "\n")

\* the reply has no native tool call and its text holds a call line that is
\* directly followed by another call line
TwoCallLines ==
    /\ ~reply.err /\ reply.choices > 0 /\ Len(reply.toolCalls) = 0
    /\ \E i \in CallLines(ReplyLines) : i + 1 \in CallLines(ReplyLines)

\* C10: when the reply has no native tool call and its text holds two
\* consecutive call lines, the response is the single invocation of the first
\* of them; the second is dropped.
C10_FirstLineOnly ==
    (ipc = "done" /\ TwoCallLines) =>
        LET d == JsonUnmarshalCall(TrimSpace(ReplyLines[Min(CallLines(ReplyLines))]))
        IN  resp.parts = <<FunctionCallPart(d.Name, d.Arguments)>>

\* C10 witness: the text was the schema call line followed by the sample call
\* line and the response is the schema call alone.
C10_Witness ==
    /\ ipc = "done" /\ TwoCallLines
    /\ reply.content = LineCallSchema \o "\n" \o "  " \o LineCallSample
    /\ resp.parts = <<FunctionCallPart("GetDatabaseSchema", NoArgs)>>

-----------------------------------------------------------------------------
(* Properties of the database tools.                                       *)

\* the result set a successful GetTableSample call has formatted
SampledRows == QueryContext(SampleQuery(toolRes.table_name))

\* C1: with tokenization enabled, every string value of a sampled column
\* whose detected type is not "none" went through the tokenizer, and the
\* sample text shows column=token and not column=value.
C1_SampleTokenized ==
    (toolRes.tool = "GetTableSample" /\ toolRes.result.err = "" /\ enabled) =>
        \A r \in 1..Len(SampledRows.rows), i \in 1..Len(SampledRows.columns) :
            LET val == SampledRows.rows[r][i]
                col == SampledRows.columns[i]
            IN  (/\ val.type = "string"
                 /\ "" \notin DetectTokenTypes(DefaultSensitiveFields, col, val.v)) =>
                    /\ val.v \in DOMAIN tokenMap
                    /\ Contains(toolRes.result.Sample, col \o "=" \o tokenMap[val.v])
                    /\ ~Contains(toolRes.result.Sample, col \o "=" \o val.v)

\* the keywords the statement must not contain
DangerousKeywords == {"DROP", "DELETE", "UPDATE", "INSERT", "ALTER", "CREATE"}

\* the statement begins with SELECT and contains no dangerous keyword
ReadOnlySelect(query) ==
    LET upperQuery == ToUpper(TrimSpace(query))
    IN  /\ HasPrefix(upperQuery, "SELECT")
        /\ \A kw \in DangerousKeywords : ~Contains(upperQuery, kw)

\* C4: ExecuteQuery sends a statement to the database only if it begins with
\* SELECT and contains none of DROP, DELETE, UPDATE, INSERT, ALTER, CREATE;
\* every other statement fails with the forbidden-statement error unsent.
C4_OnlyReadOnlySelect ==
    (toolRes.tool = "ExecuteQuery" /\ dbConnection) =>
        /\ toolRes.result.sent # <<>> => ReadOnlySelect(toolRes.query)
        /\ ~ReadOnlySelect(toolRes.query) =>
              /\ toolRes.result.err \in {"OnlySelect", "ModifyingForbidden"}
              /\ toolRes.result.sent = <<>>

-----------------------------------------------------------------------------
(* Properties of the event loop.                                           *)

\* C3: the loop guard has stopped the run exactly when the call count of
\* some function name exceeds the configured maximum M: the call numbered
\* M+1 of a name stops the loop, no call numbered M or lower does.
C3_LoopGuard ==
    /\ (stopReason = "loop") <=>
          (\E n \in DOMAIN callCount : callCount[n] > maxCallsPerFunction)
    /\ stopReason = "loop" => rpc = "returned"
    /\ maxCallsPerFunction >= 0 =>
          \A n \in DOMAIN callCount : callCount[n] <= maxCallsPerFunction + 1

\* with the limit 5 of main the sixth call of one function has stopped the
\* loop after the fifth call of another one had not
C3_Witness ==
    /\ maxCallsPerFunction = MainMaxCalls
    /\ stopReason = "loop"
    /\ \E n, m \in DOMAIN callCount :
          /\ callCount[n] = MainMaxCalls + 1
          /\ callCount[m] = MainMaxCalls

\* the reply has no native tool call and its text is prose: every line is the
\* prose line or empty, and some line is prose
PlainProse ==
    /\ ~reply.err /\ reply.choices > 0 /\ Len(reply.toolCalls) = 0
    /\ LET ls == Split(reply.content, "\n")
       IN  /\ \A i \in 1..Len(ls) : ls[i] \in {LineProse, ""}
           /\ \E i \in 1..Len(ls) : ls[i] = LineProse

\* C11: a reply without native tool call whose text is plain prose is
\* returned as the single text message whose text equals the input text.
C11_ProseVerbatim ==
    (ipc = "done" /\ PlainProse) => resp.parts = <<TextPart(reply.content)>>

\* C12: a transport error handed to the event callback ends the run, and
\* what Run returns to its caller then is not the nil of a completed run.
C12_TransportReported ==
    /\ stopReason = "error" => rpc = "returned"
    /\ (rpc = "returned" /\ stopReason = "error") => runErr # "nil"

\* the last tool call was an ExecuteQuery whose export failed in the middle,
\* after the header: reading or writing a row, or iterating the rows
ExportAborted ==
    /\ toolRes.tool = "ExecuteQuery"
    /\ toolRes.result.err = "ExportFailed"
    /\ toolRes.result.export.err \in {"ScanFailed", "WriteFailed", "RowsErr"}

\* C13: when an export aborts after k rows, what ExecuteQuery returns to its
\* caller reports k, and k is the number of complete rows in the file.
C13_PartialCountReported ==
    ExportAborted =>
        LET k == toolRes.result.export.rowCount
        IN  /\ \/ Contains(toolRes.result.Message, ToString(k))
               \/ Contains(toolRes.result.errText, ToString(k))
            /\ k = Len(files[toolRes.output_file].records) - 1

\* the UTF-8 byte-order mark, its bytes EF BB BF in hexadecimal
Utf8Bom == "EFBBBF"

\* C14: every file ExportToCSV has written a header to begins with the UTF-8
\* byte-order mark, before the header record.
C14_BomFirst ==
    \A f \in DOMAIN files :
        Len(files[f].records) >= 1 => files[f].prefix = Utf8Bom

\* the last tool call was an ExecuteQuery whose export has written the header
HeaderWritten ==
    /\ toolRes.tool = "ExecuteQuery"
    /\ toolRes.result.export.created
    /\ Len(files[toolRes.output_file].records) >= 1

\* C15: the header record is the column list of the result with every column
\* name of the dictionary replaced by its translation (code and diagnosis by
\* kod_mkb and nazvanie_diagnoza) and every other name unchanged, in the same
\* number and order.
C15_HeaderTranslated ==
    HeaderWritten =>
        LET cols == QueryContext(toolRes.query).columns
            header == files[toolRes.output_file].records[1]
        IN  /\ Len(header) = Len(cols)
            /\ \A i \in 1..Len(cols) :
                  header[i] = CASE cols[i] = "code" -> "kod_mkb"
                                [] cols[i] = "diagnosis" -> "nazvanie_diagnoza"
                                [] cols[i] \in DOMAIN Translations \ {"code", "diagnosis"} ->
                                       Translations[cols[i]]
                                [] OTHER -> cols[i]

\* C15 witness: the export of code and diagnosis wrote the translated header
C15_Witness ==
    /\ HeaderWritten
    /\ QueryContext(toolRes.query).columns = <<"code", "diagnosis">>
    /\ files[toolRes.output_file].records[1] = <<"kod_mkb", "nazvanie_diagnoza">>

\* the real value a text stands for: its entry in reverseMap when the
\* tokenizer is enabled and has one, the text itself otherwise
Reversed(text) ==
    IF enabled /\ text \in DOMAIN reverseMap THEN reverseMap[text] ELSE text

\* C16: every cell of every row the export has written is the detokenized
\* canonical text of the value, and no tool result handed to the model holds
\* a detokenized value: the sample shows the database values as they are and
\* the message of ExecuteQuery holds no value of reverseMap.
C16_DetokenizeOnlyInExport ==
    /\ (toolRes.tool = "ExecuteQuery" /\ toolRes.result.export.created) =>
          LET rows == QueryContext(toolRes.query).rows
              records == files[toolRes.output_file].records
          IN  /\ \A k \in 1..(Len(records) - 1) :
                    \A i \in 1..Len(rows[k]) :
                        records[k + 1][i] = Reversed(valueToString(rows[k][i]))
              /\ \A tok \in DOMAIN reverseMap :
                    ~Contains(toolRes.result.Message, reverseMap[tok])
    /\ (toolRes.tool = "GetTableSample" /\ toolRes.result.err = "") =>
          \A r \in 1..Len(SampledRows.rows), i \in 1..Len(SampledRows.columns) :
              LET val == SampledRows.rows[r][i]
                  col == SampledRows.columns[i]
              IN  (val.type = "string" /\ Reversed(val.v) # val.v) =>
                      /\ Contains(toolRes.result.Sample, col \o "=" \o val.v)
                      /\ ~Contains(toolRes.result.Sample, col \o "=" \o Reversed(val.v))

\* C16 witness: with NAME_001 standing for Ivanov, the export of the
\* diagnoses wrote Ivanov in place of the cell NAME_001
C16_Witness ==
    /\ toolRes.tool = "ExecuteQuery" /\ toolRes.result.err = ""
    /\ enabled /\ "NAME_001" \in DOMAIN reverseMap
    /\ Len(files[toolRes.output_file].records) = 3
    /\ files[toolRes.output_file].records[3] = <<reverseMap["NAME_001"], "Typhus">>

\* the event is a text message: it has parts and every part is text
TextEvent(e) ==
    /\ e.kind = "event"
    /\ Len(e.Parts) >= 1
    /\ \A i \in 1..Len(e.Parts) : e.Parts[i].kind = "Text"

-----------------------------------------------------------------------------
(* Properties of the run as a whole.                                       *)

\* C17: a function call that raises the count of its name above the maximum
\* is never dispatched: no tool runs more often than the maximum, when the
\* guard has fired the run is terminal with no call of that turn dispatched
\* or waiting, and from then on no tool runs and no model request is sent.
C17_NoDispatchAfterGuard ==
    /\ [](/\ \A n \in DOMAIN execCount : execCount[n] <= maxCallsPerFunction
          /\ stopReason = "loop" =>
                /\ dpc = "Terminal" /\ rpc = "returned"
                /\ pending = <<>> /\ turnCalls = <<>>)
    /\ [][stopReason = "loop" =>
             /\ execCount' = execCount
             /\ requests' = requests
             /\ toolRes' = toolRes]_vars

\* C17 witness: with the maximum 1 the second call of a function has ended
\* the run and the function has run once
C17_Witness ==
    /\ maxCallsPerFunction = 1
    /\ stopReason = "loop" /\ dpc = "Terminal"
    /\ \E n \in DOMAIN execCount : execCount[n] = 1 /\ callCount[n] = 2

\* C18: at most one tool call is dispatched per model turn, whatever the
\* reply of the model holds.
C18_OneDispatchPerTurn == Len(turnCalls) <= 1

\* C20: whatever the interleaving of concurrent Tokenize, TokenizeWithHash,
\* Detokenize, SetEnabled, Clear and GetStats calls, the maps are written only
\* by the goroutine holding the lock, no value has two tokens, no token stands
\* for two values, and tokenMap and reverseMap stay inverse to each other
C20_ConcurrentConsistent ==
    /\ \A g \in Threads : cpc[g] = "held" => mu = g /\ rlocks = {}
    /\ \A g \in Threads : cpc[g] = "rheld" => mu = 0
    /\ \A v \in DOMAIN tokenMap :
          tokenMap[v] \in DOMAIN reverseMap /\ reverseMap[tokenMap[v]] = v
    /\ \A tok \in DOMAIN reverseMap :
          reverseMap[tok] \in DOMAIN tokenMap /\ tokenMap[reverseMap[tok]] = tok
    /\ \A g, h \in Threads :
          /\ cpc[g] = "done" /\ cpc[h] = "done"
          /\ cop[g].op \in {"Tokenize", "TokenizeWithHash"}
          /\ cop[h].op \in {"Tokenize", "TokenizeWithHash"}
          /\ cres[g].out # cop[g].value /\ cres[h].out # cop[h].value
          => (cop[g].value = cop[h].value <=> cres[g].out = cres[h].out)

\* C21: a newly minted token never collides with a recorded one: no token of
\* reverseMap stands for two values, and tokenMap and reverseMap are exact
\* inverses of each other
C21_ExactInverses ==
    /\ \A v \in DOMAIN tokenMap :
          tokenMap[v] \in DOMAIN reverseMap /\ reverseMap[tokenMap[v]] = v
    /\ \A tok \in DOMAIN reverseMap :
          reverseMap[tok] \in DOMAIN tokenMap /\ tokenMap[reverseMap[tok]] = tok
    /\ \A v, w \in DOMAIN tokenMap : tokenMap[v] = tokenMap[w] => v = w

\* C22: a token record is created only by the first tokenization of a value
\* and is then kept as it is: no step other than a reset (Clear, or Init
\* replacing the tokenizer) removes or alters an entry of tokenMap or
\* reverseMap, a tokenization of a value already recorded creates nothing,
\* and Detokenize, GetStats and the calls made while disabled create nothing
C22_RecordsKept ==
    [][ret'.op \notin {"Clear", "Init"} =>
          /\ \A v \in DOMAIN tokenMap :
                v \in DOMAIN tokenMap' /\ tokenMap'[v] = tokenMap[v]
          /\ \A tok \in DOMAIN reverseMap :
                tok \in DOMAIN reverseMap' /\ reverseMap'[tok] = reverseMap[tok]
          /\ (\/ ret'.op \in {"Detokenize", "GetStats", "SetEnabled"}
              \/ ~enabled
              \/ (ret'.op \in {"Tokenize", "TokenizeWithHash"}
                    /\ ret'.value \in DOMAIN tokenMap))
                => /\ tokenMap' = tokenMap
                   /\ reverseMap' = reverseMap
                   /\ counters' = counters]_vars

-----------------------------------------------------------------------------
(* Properties of the request built from the history.                       *)

\* a history message that records one tool call with a name
RecordedCall(content) ==
    /\ Len(content.Parts) = 1
    /\ content.Parts[1].kind = "FunctionCall"
    /\ content.Parts[1].Name # ""

\* C23: a recorded tool call {name, arguments} with a non-empty name is
\* written into the request as a JSON text, and the interpretation of a reply
\* made of exactly that text is the call with the same name and arguments
C23_CallRoundTrip ==
    hpc = "built" =>
        \A i \in 1..Len(contents) :
            RecordedCall(contents[i]) =>
                /\ \E k \in 1..Len(messages) : messages[k].text = ContentText(contents[i])
                /\ GenerateContent(TextReply(ContentText(contents[i]))).parts
                      = <<contents[i].Parts[1]>>

\* C23 (witness): a request was built from a history that records an
\* ExecuteQuery call whose query holds a quote and a line break
C23_Witness ==
    /\ hpc = "built"
    /\ \E i \in 1..Len(contents) :
          /\ RecordedCall(contents[i])
          /\ contents[i].Parts[1].Name = "ExecuteQuery"
          /\ Contains(contents[i].Parts[1].Args.query, "\n")

\* the number of messages in front of those of the history
SystemOffset == Len(SystemMessages(sysInstruction))

\* strings.HasSuffix
HasSuffix(s, suffix) ==
    Len(s) >= Len(suffix) /\ SubSeq(s, Len(s) - Len(suffix) + 1, Len(s)) = suffix

\* a history message whose parts hold text
Contributes(content) == ContentText(content) # ""

-----------------------------------------------------------------------------
(* Properties of the native tool calls of a reply.                         *)

\* the reply carries native tool calls and was interpreted
NativeInterpreted ==
    /\ ipc = "done"
    /\ ~reply.err /\ reply.choices > 0 /\ Len(reply.toolCalls) > 0

\* C25: when the argument payload of a native tool call does not decode as
\* a mapping, the interpreter raises no error and still yields the call of
\* that tool, with the payload as the argument "raw"
C25_RawFallback ==
    NativeInterpreted =>
        /\ ~resp.err /\ resp.TurnComplete
        /\ Len(resp.parts) = Len(reply.toolCalls)
        /\ \A i \in 1..Len(reply.toolCalls) :
              reply.toolCalls[i].arguments = "oops" =>
                  resp.parts[i] = FunctionCallPart(reply.toolCalls[i].name, [raw |-> "oops"])

\* C25 (witness): a reply with one native call of GetTableSample whose
\* payload is not JSON was interpreted
C25_Witness ==
    /\ NativeInterpreted
    /\ Len(reply.toolCalls) = 1
    /\ reply.toolCalls[1] = [name |-> "GetTableSample", arguments |-> "oops"]
    /\ ~JsonUnmarshalMap("oops").ok

-----------------------------------------------------------------------------
(* Properties of TokenizeMap and detectTokenType.                          *)

\* the field is marked sensitive, its name holds none of the type keywords,
\* and the value has none of the date, email and phone shapes
NoKeywordNoShape(fieldName, value) ==
    /\ fieldName = "account"
    /\ \A tt \in PatternTypes : ~PatternMatches(tt, value)

C28_DetectDeterministic ==
    [][(/\ ret.op = "TokenizeMap" /\ ret'.op = "TokenizeMap"
        /\ ret.types # EmptyMap /\ ret'.types # EmptyMap) =>
           \A k \in DOMAIN ret.data \cap DOMAIN ret'.data :
               ret.data[k] = ret'.data[k] => ret.types[k] = ret'.types[k]]_vars

\* C29: with tokenization enabled, the token Tokenize(v, t) returns for a
\* non-empty v carries the prefix of the requested type t, also when v was
\* tokenized before with another type
C29_RequestedTypePrefix ==
    (ret.op = "Tokenize" /\ enabled /\ ret.value # "") =>
        HasPrefix(ret.token, ret.type \o "_")

\* the sum of the per-type counters
RECURSIVE SumCounters(_)
SumCounters(c) ==
    IF DOMAIN c = {} THEN 0
    ELSE LET tt == CHOOSE x \in DOMAIN c : TRUE
         IN  c[tt] + SumCounters([x \in DOMAIN c \ {tt} |-> c[x]])

\* C30: in every reachable state of the tokenizer the statistics agree:
\* total_tokens, the size of the forward map, equals the size of the reverse
\* map and the sum of the per-type counters
C30_StatsConsistent ==
    LET stats == GetStats(Tokenizer)
    IN  /\ stats.total_tokens = Cardinality(DOMAIN tokenMap)
        /\ stats.total_tokens = Cardinality(DOMAIN reverseMap)
        /\ stats.total_tokens = SumCounters(stats.counters)

====
